---- MODULE Spec2Model ----
(***************************************************************************)
(* The ride-negotiation marketplace of DirectDriveBot: the relational      *)
(* store (passengers, drivers, driver_documents, orders, driver_offers,    *)
(* ratings, price_negotiations)                                            *)
(* and the tool handlers that read and write it.                           *)
(*                                                                         *)
(* Representation.                                                         *)
(*   - A table is a function from the serial ids of its rows to the rows;  *)
(*     nothing is ever deleted.  serials[t] is the last value the sequence *)
(*     of the id column of the table t has handed out: an insert draws the *)
(*     next value, and a value drawn by an insert the store then refuses   *)
(*     is not given back, so the ids of a table can have gaps.  The        *)
(*     inserts the store refuses are a rating without a user to rate, a    *)
(*     profile whose telegram id is in its table and a price the           *)
(*     decimal(8,2) column cannot hold.                                    *)
(*   - SQL NULL is NULL (-1) in integer columns and NullText in text       *)
(*     columns.  An optional text argument that is not supplied is         *)
(*     NullText, one that is supplied empty is "".                         *)
(*   - A JS number that is a price is given in thousandths of a rouble     *)
(*     (550555 is 550.555); a decimal(8,2) column holds hundredths         *)
(*     (55056 is "550.56"); a decimal(3,2) rating holds hundredths too.    *)
(*     Ids and star ratings are whole numbers.                             *)
(*   - A tool handler awaits each statement it sends to the store, so a    *)
(*     handler is one action per statement: between two statements of a    *)
(*     call the statements of other calls can run.  calls[p] is the call   *)
(*     the process p is making.                                            *)
(*   - `last` is the tool call that returned most recently: its name, its  *)
(*     arguments and the structured result it returned; it is NoCall once  *)
(*     a call has begun since.                                             *)
(***************************************************************************)
EXTENDS Integers, Sequences, FiniteSets, TLC

VARIABLES passengers, drivers, driverDocuments, orders, driverOffers, ratings,
          priceNegotiations, serials, last, calls, played

vars == <<passengers, drivers, driverDocuments, orders, driverOffers, ratings,
          priceNegotiations, serials, last, calls, played>>

tables == <<passengers, drivers, driverDocuments, orders, driverOffers, ratings,
            priceNegotiations>>

(***************************************************************************)
(* Bounds of the model.                                                    *)
(***************************************************************************)
\* ids of driver_documents the ledger specification hands out
MaxDocs == 3
\* ids of orders a specification hands out; callers name the order ids 1..MaxOrders
MaxOrders == 1
\* ids of driver_offers a specification hands out; callers name the offer ids 1..MaxOffers
MaxOffers == 2

NULL == -1
NullText == "NULL"

\* telegram ids of callers of the driver tools: d1, d2 and d3 register, d4 never does
DriverHandles == {"d1", "d2"}
MarketDriverHandles == {"d1", "d2", "d3", "d4"}
\* telegram ids of callers of the passenger tools: p2 never registers
PassengerHandles == {"p1", "p2"}
\* telegram id of the driver of the gate specification
GateHandles == {"d1"}
DocTypes == {"license", "vehicle_registration", "insurance"}
Payloads == {"scan"}
\* JS numbers that are prices, in thousandths: 550, 600.004 (stored as 600.00) and
\* 999999.995, which rounds to 1000000.00
PriceInputs == {550000, 600004, 999999995}
\* the suggestedPrice of createOrder: 500, and 999999.995, which rounds to 1000000.00
SuggestedPrices == {500000, 999999995}
OrderIdInputs == 1..MaxOrders
OfferIdInputs == 1..MaxOffers

Min(S) == CHOOSE x \in S : \A y \in S : x <= y

(***************************************************************************)
(* number.toString() stored into a decimal(8,2) column: PostgreSQL rounds  *)
(* the text to two fractional digits, half away from zero, and refuses a   *)
(* rounded value of more than six digits before the point.                 *)
(***************************************************************************)
ToDecimal2(milli) ==
  IF milli >= 0 THEN (milli + 5) \div 10 ELSE -((5 - milli) \div 10)

\* numeric field overflow: the rounded value has an absolute value of 10^6 or more
Overflows(milli) ==
  ToDecimal2(milli) >= 100000000 \/ ToDecimal2(milli) <= -100000000

\* value || null on an optional text argument: no text and the empty text are NULL
OrNull(text) == IF text = "" THEN NullText ELSE text

(***************************************************************************)
(* Rows, with the column defaults of the schema.                           *)
(***************************************************************************)
NewDriverRow(telegramId, firstName, phoneNumber, carModel, carColor, carNumber) ==
  [telegramId |-> telegramId, firstName |-> firstName, phoneNumber |-> phoneNumber,
   rating |-> 500, totalRides |-> 0, isOnline |-> FALSE, isVerified |-> FALSE,
   carModel |-> carModel, carColor |-> carColor, carNumber |-> carNumber,
   licenseStatus |-> "pending", vehicleStatus |-> "pending"]

NewDocumentRow(driverId, documentType, documentData) ==
  [driverId |-> driverId, documentType |-> documentType, documentData |-> documentData,
   status |-> "pending", rejectionReason |-> NullText]

NewPassengerRow(telegramId, firstName, phoneNumber) ==
  [telegramId |-> telegramId, firstName |-> firstName, phoneNumber |-> phoneNumber,
   rating |-> 500, totalRides |-> 0]

NewOrderRow(passengerId, fromAddress, toAddress, suggestedPrice) ==
  [passengerId |-> passengerId, fromAddress |-> fromAddress, toAddress |-> toAddress,
   suggestedPrice |-> ToDecimal2(suggestedPrice), finalPrice |-> NULL,
   status |-> "pending", acceptedDriverId |-> NULL]

NewOfferRow(orderId, driverId, offeredPrice, message) ==
  [orderId |-> orderId, driverId |-> driverId, offeredPrice |-> ToDecimal2(offeredPrice),
   status |-> "pending", message |-> OrNull(message)]

NewNegotiationRow(orderId, fromUserId, fromUserType, toUserId, toUserType, proposedPrice) ==
  [orderId |-> orderId, fromUserId |-> fromUserId, fromUserType |-> fromUserType,
   toUserId |-> toUserId, toUserType |-> toUserType,
   proposedPrice |-> ToDecimal2(proposedPrice), status |-> "pending"]

NewRatingRow(orderId, fromUserId, fromUserType, toUserId, toUserType, rating, comment) ==
  [orderId |-> orderId, fromUserId |-> fromUserId, fromUserType |-> fromUserType,
   toUserId |-> toUserId, toUserType |-> toUserType, rating |-> rating,
   comment |-> OrNull(comment)]

(***************************************************************************)
(* Queries.                                                                *)
(***************************************************************************)
\* db.select().from(drivers).where(eq(drivers.telegramId, telegramId))
DriversByTelegramId(tbl, telegramId) ==
  {i \in DOMAIN tbl : tbl[i].telegramId = telegramId}

\* db.select().from(passengers).where(eq(passengers.telegramId, telegramId))
PassengersByTelegramId(tbl, telegramId) ==
  {i \in DOMAIN tbl : tbl[i].telegramId = telegramId}

\* db.select().from(driverDocuments).where(and(eq(driverId), eq(documentType)))
DocumentsOfType(tbl, driverId, documentType) ==
  {i \in DOMAIN tbl : tbl[i].driverId = driverId /\ tbl[i].documentType = documentType}

\* a duplicate check that looks at the pending offers only
PendingOffersOfDriverOnOrder(tbl, orderId, driverId) ==
  {i \in DOMAIN tbl : /\ tbl[i].orderId = orderId /\ tbl[i].driverId = driverId
                      /\ tbl[i].status = "pending"}

\* db.select().from(driverOffers).where(and(eq(orderId), eq(driverId)))
OffersOfDriverOnOrder(tbl, orderId, driverId) ==
  {i \in DOMAIN tbl : tbl[i].orderId = orderId /\ tbl[i].driverId = driverId}

\* a duplicate check that finds nothing
NoRatings(rts, orderId, fromUserId) == {}

\* db.select().from(ratings).where(and(eq(ratings.orderId, orderId), eq(ratings.fromUserId, fromUserId)))
RatingsOfUserOnOrder(rts, orderId, fromUserId) ==
  {i \in DOMAIN rts : rts[i].orderId = orderId /\ rts[i].fromUserId = fromUserId}

\* a select that looks at the receiving user id in either role
RatingsToAnyRole(rts, userId, userType) ==
  {i \in DOMAIN rts : rts[i].toUserId = userId}

\* db.select().from(ratings).where(and(eq(ratings.toUserId, userId), eq(ratings.toUserType, userType)))
RatingsTo(rts, userId, userType) ==
  {i \in DOMAIN rts : rts[i].toUserId = userId /\ rts[i].toUserType = userType}

Max(S) == CHOOSE x \in S : \A y \in S : x >= y

RECURSIVE Descending(_)
\* the ids of S, the largest first
Descending(S) == IF S = {} THEN <<>> ELSE <<Max(S)>> \o Descending(S \ {Max(S)})

RECURSIVE Ascending(_)
Ascending(S) == IF S = {} THEN <<>> ELSE <<Min(S)>> \o Ascending(S \ {Min(S)})

\* a listing of the pending orders, the oldest first
AvailableOrdersOldestFirst(ords) == Ascending({i \in DOMAIN ords : ords[i].status = "pending"})

\* db.select(...).from(orders).leftJoin(passengers, ...).where(eq(orders.status, "pending"))
\*   .orderBy(desc(orders.createdAt)): created_at grows with the serial id, so the
\* descending order of created_at is the descending order of the ids
AvailableOrders(ords) == Descending({i \in DOMAIN ords : ords[i].status = "pending"})

(***************************************************************************)
(* Updates.                                                                *)
(***************************************************************************)
\* an update that resets the status and keeps the stored payload and reason
ResetDocumentKeepingPayload(docs, documentId, documentData) ==
  [docs EXCEPT ![documentId] = [@ EXCEPT !.status = "pending"]]

\* db.update(driverDocuments).set({documentData, status, rejectionReason}).where(eq(id, ...))
ResetDocument(docs, documentId, documentData) ==
  [docs EXCEPT ![documentId] = [@ EXCEPT !.documentData = documentData,
                                         !.status = "pending",
                                         !.rejectionReason = NullText]]

\* db.update(driverDocuments).set({status, rejectionReason}).where(eq(id, documentId)),
\* with rejectionReason: approve ? null : (rejectionReason || null)
SetDocumentStatus(docs, documentId, approve, rejectionReason) ==
  [i \in DOMAIN docs |->
     IF i = documentId
     THEN [docs[i] EXCEPT !.status = IF approve THEN "approved" ELSE "rejected",
                          !.rejectionReason = IF approve THEN NullText
                                              ELSE OrNull(rejectionReason)]
     ELSE docs[i]]

\* db.update(drivers).set({isVerified, licenseStatus, vehicleStatus}).where(eq(drivers.id, driverId))
SetDriverVerification(drv, driverId, ok) ==
  [i \in DOMAIN drv |->
     IF i = driverId
     THEN [drv[i] EXCEPT !.isVerified = ok,
                         !.licenseStatus = IF ok THEN "approved" ELSE "pending",
                         !.vehicleStatus = IF ok THEN "approved" ELSE "pending"]
     ELSE drv[i]]

\* db.update(drivers).set({isOnline}).where(eq(drivers.telegramId, telegramId))
SetOnline(drv, telegramId, isOnline) ==
  [i \in DOMAIN drv |->
     IF drv[i].telegramId = telegramId THEN [drv[i] EXCEPT !.isOnline = isOnline]
     ELSE drv[i]]

\* an update that stamps the order's own suggested price as the final price
SetOrderAcceptedAtSuggestedPrice(ords, orderId, offerData) ==
  [i \in DOMAIN ords |->
     IF i = orderId
     THEN [ords[i] EXCEPT !.status = "accepted",
                          !.acceptedDriverId = offerData.driverId,
                          !.finalPrice = ords[i].suggestedPrice]
     ELSE ords[i]]

\* db.update(orders).set({status, acceptedDriverId, finalPrice}).where(eq(orders.id, orderId))
SetOrderAccepted(ords, orderId, offerData) ==
  [i \in DOMAIN ords |->
     IF i = orderId
     THEN [ords[i] EXCEPT !.status = "accepted",
                          !.acceptedDriverId = offerData.driverId,
                          !.finalPrice = offerData.offeredPrice]
     ELSE ords[i]]

\* an update that also rejects every other offer, on the accepted offer's order and on
\* the other orders
SetOfferAcceptedRejectingOthers(offs, offerId) ==
  [i \in DOMAIN offs |->
     IF i = offerId THEN [offs[i] EXCEPT !.status = "accepted"]
     ELSE [offs[i] EXCEPT !.status = "rejected"]]

\* db.update(driverOffers).set({status: "accepted"}).where(eq(driverOffers.id, offerId))
SetOfferAccepted(offs, offerId) ==
  [i \in DOMAIN offs |->
     IF i = offerId THEN [offs[i] EXCEPT !.status = "accepted"] ELSE offs[i]]

\* db.update(priceNegotiations).set({status}).where(eq(priceNegotiations.id, negotiationId))
SetNegotiationStatus(negs, negotiationId, status) ==
  [i \in DOMAIN negs |->
     IF i = negotiationId THEN [negs[i] EXCEPT !.status = status] ELSE negs[i]]

\* db.update(drivers or passengers).set({rating, totalRides}).where(eq(id, userId))
SetUserRating(tbl, userId, rating, totalRides) ==
  [i \in DOMAIN tbl |->
     IF i = userId THEN [tbl[i] EXCEPT !.rating = rating, !.totalRides = totalRides]
     ELSE tbl[i]]

(***************************************************************************)
(* What the handlers compute from the rows they have read.                 *)
(***************************************************************************)
\* a required list that names the insurance too
EveryDocType == {"license", "vehicle_registration", "insurance"}

RequiredDocs == {"license", "vehicle_registration"}

\* requiredDocs.every(type => approvedDocs.some(doc => doc.documentType === type)),
\* over the documents of the driver
HasAllRequiredApproved(docs, driverId) ==
  LET approvedDocs == {i \in DOMAIN docs : docs[i].driverId = driverId /\ docs[i].status = "approved"}
  IN  \A type \in RequiredDocs : \E i \in approvedDocs : docs[i].documentType = type

\* an aggregate that trusts the stored flag alone
StoredFlagOnly(hasAllRequiredApproved, storedFlag) == storedFlag

\* const isVerified = hasAllRequiredApproved && Boolean(driver[0].isVerified)
IsVerifiedAggregate(hasAllRequiredApproved, storedFlag) ==
  hasAllRequiredApproved /\ storedFlag

\* the truth value JavaScript gives an optional number in a condition: false when it is
\* not supplied and false when it is 0
Truthy(number) == number # NULL /\ number # 0

RECURSIVE SumOfRatings(_, _)
\* userRatings.reduce((sum, r) => sum + r.rating, 0)
SumOfRatings(rts, S) ==
  IF S = {} THEN 0
  ELSE LET i == Min(S) IN rts[i].rating + SumOfRatings(rts, S \ {i})

\* a formatting that cuts the digits after the second one
ToFixed2Truncating(sum, n) == (100 * sum) \div n

RECURSIVE Exponent(_, _)
\* the binary exponent e of the quotient of sum > 0 by n: 2^e <= sum / n < 2^(e + 1)
Exponent(sum, n) ==
  IF sum >= 2 * n THEN 1 + Exponent(sum, 2 * n)
  ELSE IF sum < n THEN Exponent(2 * sum, n) - 1
  ELSE 0

RECURSIVE ShiftedRemainder(_, _, _)
\* (x * 2^k) mod m
ShiftedRemainder(x, k, m) ==
  IF k = 0 THEN x % m ELSE ShiftedRemainder((2 * x) % m, k - 1, m)

\* sum / n, the division of two JS numbers: the double nearest to the quotient, the one
\* with the even significand when two are as near.  A double has a significand of 53
\* bits, so the significand of sum / n is the quotient of sum * 2^(52 - e) by n rounded
\* to a whole number; the double is below the quotient when the rounding goes down
QuotientRoundsDown(sum, n) ==
  LET s == ShiftedRemainder(sum, 52 - Exponent(sum, n), 2 * n)
      r == s % n
  IN  r # 0 /\ (2 * r < n \/ (2 * r = n /\ s < n))

\* (sum / n).toFixed(2), in hundredths: the hundredth nearest to the double sum / n, the
\* larger one when two are as near.  The double is nearer to the quotient than the
\* quotient is to the middle of two hundredths unless the quotient is that middle; then
\* the double is below the middle, and the smaller hundredth is nearer, exactly if the
\* division has rounded down (41 / 40 is "1.02" and 45 / 40 is "1.13")
ToFixed2(sum, n) ==
  LET below == (100 * sum) \div n
      rest == (100 * sum) % n
  IN  IF 2 * rest < n THEN below
      ELSE IF 2 * rest > n THEN below + 1
      ELSE IF QuotientRoundsDown(sum, n) THEN below
      ELSE below + 1

\* a target role that is the rater's own role
OwnType(userType) == userType

\* userType === "passenger" ? "driver" : "passenger"
OtherType(userType) == IF userType = "passenger" THEN "driver" ELSE "passenger"

\* a check that only asks whether the caller is registered in the role
NotRegistered(user, partyId) == user = {}

\* passenger.length === 0 || passenger[0].id !== orderData.passengerId (and for drivers)
NotParty(user, partyId) == user = {} \/ Min(user) # partyId

Reverse(seq) == [i \in 1..Len(seq) |-> seq[Len(seq) + 1 - i]]

\* userRatings.filter(r => r.comment).slice(-5).map(r => r.comment).reverse(); the rows
\* selected are ordered by created_at, which grows with the serial id
RecentComments(rts, userId, userType) ==
  LET commented == Reverse(Descending({i \in DOMAIN rts : /\ rts[i].toUserId = userId
                                                          /\ rts[i].toUserType = userType
                                                          /\ rts[i].comment # NullText}))
      n == Len(commented)
      recent == IF n <= 5 THEN commented ELSE SubSeq(commented, n - 4, n)
  IN  Reverse([i \in 1..Len(recent) |-> rts[recent[i]].comment])

(***************************************************************************)
(* Tool calls.  calls[p] is the call process p is making: its tool (op),   *)
(* the statement it sends next (pc), its arguments, what it has read       *)
(* (loc) and, once it has returned, its result: success, a code for the    *)
(* message (result) and the id or the list the result carries (ret, NULL   *)
(* when it carries none).  The process Caller makes one call after         *)
(* another and begins a call when its last call has returned; each process *)
(* of Procs makes one call, at any time.                                   *)
(*                                                                         *)
(* Three fields record the history the properties are stated with: seen is *)
(* the status the order the call names had when the call began ("none"     *)
(* when there is no such order), before is the store as it was when a call *)
(* of Caller began, and fault is the statement of the call that the store  *)
(* failed ("none" when every statement so far was carried out).            *)
(***************************************************************************)
Caller == 0
Procs == {1, 2}
Processes == {Caller} \cup Procs

Returned(op, args, success, result, ret) ==
  [op |-> op, args |-> args, success |-> success, result |-> result, ret |-> ret]

NoCall == Returned("none", <<>>, TRUE, "none", NULL)

IdleCall ==
  [op |-> "idle", pc |-> "idle", args |-> <<>>, loc |-> <<>>, seen |-> "none", before |-> <<>>,
   success |-> FALSE, result |-> "none", ret |-> NULL, fault |-> "none"]

StatusOfOrder(orderId) ==
  IF orderId \in DOMAIN orders THEN orders[orderId].status ELSE "none"

\* Caller has no call in flight
Quiet == calls[Caller].pc \in {"idle", "done"}

\* execute: async ({ context }) => { const {...} = context; try {
Begin(p, op, pc, args, orderId) ==
  /\ calls[p].pc = "idle" \/ (p = Caller /\ calls[p].pc = "done")
  /\ calls' = [calls EXCEPT ![p] = [IdleCall EXCEPT !.op = op, !.pc = pc, !.args = args,
                                                    !.seen = StatusOfOrder(orderId),
                                                    !.before = IF p = Caller THEN tables
                                                               ELSE <<>>]]
  /\ last' = NoCall
  /\ UNCHANGED <<tables, serials>>

\* return { success, message, ... }: the handler sends no further statement
Return(p, success, result, ret) ==
  /\ calls' = [calls EXCEPT ![p] = [@ EXCEPT !.pc = "done", !.loc = <<>>, !.before = <<>>,
                                              !.success = success, !.result = result,
                                              !.ret = ret]]
  /\ last' = Returned(calls[p].op, calls[p].args, success, result, ret)
  /\ UNCHANGED played

\* the handler goes on to its next statement with what it has read
Goto(p, pc, loc) ==
  /\ calls' = [calls EXCEPT ![p] = [@ EXCEPT !.pc = pc, !.loc = loc]]
  /\ UNCHANGED <<last, played>>

\* the call of p is about to send the statement pc of the tool op
At(p, op, pc) == calls[p].op = op /\ calls[p].pc = pc

(***************************************************************************)
(* The empty store.                                                        *)
(***************************************************************************)
Init ==
  /\ passengers = <<>>
  /\ drivers = <<>>
  /\ driverDocuments = <<>>
  /\ orders = <<>>
  /\ driverOffers = <<>>
  /\ ratings = <<>>
  /\ priceNegotiations = <<>>
  /\ serials = [passengers |-> 0, drivers |-> 0, driverDocuments |-> 0, orders |-> 0,
                driverOffers |-> 0, ratings |-> 0, priceNegotiations |-> 0]
  /\ last = NoCall
  /\ calls = [p \in Processes |-> IdleCall]
  /\ played = 0

(***************************************************************************)
(* registerDriverTool.  telegram_id is unique: the store refuses the       *)
(* insert of a telegram id that is in the table, after the insert has      *)
(* drawn its id, and the catch of the handler returns.                     *)
(***************************************************************************)
BeginRegisterDriver(p, telegramId, firstName, phoneNumber, carModel, carColor, carNumber) ==
  Begin(p, "registerDriver", "selectDriver",
        <<telegramId, firstName, phoneNumber, carModel, carColor, carNumber>>, 0)

\* const existingDriver = await db.select().from(drivers).where(eq(telegramId))
RegisterDriverSelect(p) ==
  /\ At(p, "registerDriver", "selectDriver")
  /\ LET existingDriver == DriversByTelegramId(drivers, calls[p].args[1])
     IN  IF existingDriver # {}
         THEN Return(p, TRUE, "welcome_back", Min(existingDriver))
         ELSE Goto(p, "insertDriver", calls[p].loc)
  /\ UNCHANGED <<tables, serials>>

\* const newDriver = await db.insert(drivers).values({...}).returning(); return
RegisterDriverInsert(p) ==
  /\ At(p, "registerDriver", "insertDriver")
  /\ LET a == calls[p].args
         id == serials.drivers + 1
     IN  /\ serials' = [serials EXCEPT !.drivers = id]
         /\ IF DriversByTelegramId(drivers, a[1]) # {}
            THEN /\ Return(p, FALSE, "error", NULL)
                 /\ UNCHANGED tables
            ELSE /\ drivers' = drivers @@ (id :> NewDriverRow(a[1], a[2], a[3], a[4], a[5], a[6]))
                 /\ Return(p, TRUE, "registered", id)
                 /\ UNCHANGED <<passengers, driverDocuments, orders, driverOffers, ratings,
                                priceNegotiations>>

(***************************************************************************)
(* uploadDocumentTool (submitDocument).  The select of the documents has   *)
(* no order: when it finds several rows, existingDoc[0] is any of them.    *)
(***************************************************************************)
BeginUploadDocument(p, telegramId, documentType, documentData) ==
  Begin(p, "uploadDocument", "selectDriver", <<telegramId, documentType, documentData>>, 0)

\* const driver = await db.select().from(drivers).where(eq(drivers.telegramId, telegramId))
UploadDocumentSelectDriver(p) ==
  /\ At(p, "uploadDocument", "selectDriver")
  /\ LET driver == DriversByTelegramId(drivers, calls[p].args[1])
     IN  IF driver = {}
         THEN Return(p, FALSE, "driver_not_found", NULL)
         ELSE Goto(p, "selectDocuments", Min(driver))
  /\ UNCHANGED <<tables, serials>>

\* const existingDoc = await db.select().from(driverDocuments).where(and(...))
UploadDocumentSelectDocuments(p) ==
  /\ At(p, "uploadDocument", "selectDocuments")
  /\ LET existingDoc == DocumentsOfType(driverDocuments, calls[p].loc, calls[p].args[2])
     IN  IF existingDoc # {}
         THEN \E first \in existingDoc :
                Goto(p, "writeDocument", [driverId |-> calls[p].loc, documentId |-> first])
         ELSE Goto(p, "writeDocument", [driverId |-> calls[p].loc, documentId |-> NULL])
  /\ UNCHANGED <<tables, serials>>

\* await db.update(driverDocuments).set({...}).where(eq(id, existingDoc[0].id)); return
\* or const newDoc = await db.insert(driverDocuments).values({...}).returning(); return
UploadDocumentWrite(p) ==
  /\ At(p, "uploadDocument", "writeDocument")
  /\ LET loc == calls[p].loc
         id == serials.driverDocuments + 1
     IN  IF loc.documentId # NULL
         THEN /\ driverDocuments' = ResetDocument(driverDocuments, loc.documentId, calls[p].args[3])
              /\ Return(p, TRUE, "updated", loc.documentId)
              /\ UNCHANGED serials
         ELSE /\ driverDocuments' =
                   driverDocuments @@
                     (id :> NewDocumentRow(loc.driverId, calls[p].args[2], calls[p].args[3]))
              /\ serials' = [serials EXCEPT !.driverDocuments = id]
              /\ Return(p, TRUE, "uploaded", id)
  /\ UNCHANGED <<passengers, drivers, orders, driverOffers, ratings, priceNegotiations>>

(***************************************************************************)
(* processDocumentVerificationTool (adjudicateDocument) and its helper     *)
(* checkAndUpdateDriverVerification.  loc is what the call has read: the   *)
(* driver id of the document, then that id and the aggregate the helper    *)
(* has computed.                                                           *)
(***************************************************************************)
BeginProcessDocumentVerification(p, documentId, approve, rejectionReason) ==
  Begin(p, "processDocumentVerification", "updateDocument",
        <<documentId, approve, rejectionReason>>, 0)

\* the message of the result: document approved or document rejected
VerdictCode(approve) == IF approve THEN "approved" ELSE "rejected"

\* await db.update(driverDocuments).set({status, rejectionReason}).where(eq(id, documentId))
VerificationUpdateDocument(p) ==
  /\ At(p, "processDocumentVerification", "updateDocument")
  /\ driverDocuments' = SetDocumentStatus(driverDocuments, calls[p].args[1], calls[p].args[2],
                                          calls[p].args[3])
  /\ Goto(p, "selectDocument", calls[p].loc)
  /\ UNCHANGED <<serials, passengers, drivers, orders, driverOffers, ratings, priceNegotiations>>

\* const document = await db.select().from(driverDocuments).where(eq(id, documentId))
VerificationSelectDocument(p) ==
  /\ At(p, "processDocumentVerification", "selectDocument")
  /\ IF calls[p].args[1] \notin DOMAIN driverDocuments
     THEN Return(p, TRUE, VerdictCode(calls[p].args[2]), NULL)
     ELSE Goto(p, "selectDocuments", driverDocuments[calls[p].args[1]].driverId)
  /\ UNCHANGED <<tables, serials>>

\* checkAndUpdateDriverVerification: const documents = await db.select().from(driverDocuments)
\*   .where(eq(driverDocuments.driverId, driverId)), and the aggregate over them
VerificationSelectDocuments(p) ==
  /\ At(p, "processDocumentVerification", "selectDocuments")
  /\ Goto(p, "updateDriver",
          [driverId |-> calls[p].loc,
           hasAllRequiredApproved |-> HasAllRequiredApproved(driverDocuments, calls[p].loc)])
  /\ UNCHANGED <<tables, serials>>

\* checkAndUpdateDriverVerification: await db.update(drivers).set({isVerified, ...}); return
VerificationUpdateDriver(p) ==
  /\ At(p, "processDocumentVerification", "updateDriver")
  /\ drivers' = SetDriverVerification(drivers, calls[p].loc.driverId,
                                      calls[p].loc.hasAllRequiredApproved)
  /\ Return(p, TRUE, VerdictCode(calls[p].args[2]), NULL)
  /\ UNCHANGED <<serials, passengers, driverDocuments, orders, driverOffers, ratings, priceNegotiations>>

(***************************************************************************)
(* checkVerificationStatusTool (getVerificationStatus).  The result code   *)
(* is the isVerified field of the result; the per-document list of the     *)
(* result, a formatting of the driver's document rows, is left out.        *)
(***************************************************************************)
BeginCheckVerificationStatus(p, telegramId) ==
  Begin(p, "checkVerificationStatus", "selectDriver", <<telegramId>>, 0)

\* const driver = await db.select().from(drivers).where(eq(drivers.telegramId, telegramId))
CheckVerificationStatusSelectDriver(p) ==
  /\ At(p, "checkVerificationStatus", "selectDriver")
  /\ LET driver == DriversByTelegramId(drivers, calls[p].args[1])
     IN  IF driver = {}
         THEN Return(p, FALSE, "driver_not_found", NULL)
         ELSE Goto(p, "selectDocuments",
                   [driverId |-> Min(driver), isVerified |-> drivers[Min(driver)].isVerified])
  /\ UNCHANGED <<tables, serials>>

\* const documents = await db.select().from(driverDocuments).where(eq(driverId, driver[0].id));
\* the aggregate; return
CheckVerificationStatusSelectDocuments(p) ==
  /\ At(p, "checkVerificationStatus", "selectDocuments")
  /\ LET hasAllRequiredApproved == HasAllRequiredApproved(driverDocuments, calls[p].loc.driverId)
     IN  Return(p, TRUE,
                IF IsVerifiedAggregate(hasAllRequiredApproved, calls[p].loc.isVerified)
                THEN "verified" ELSE "unverified", NULL)
  /\ UNCHANGED <<tables, serials>>

(***************************************************************************)
(* makeOfferTool.  The store refuses a price the decimal(8,2) column       *)
(* cannot hold.  The price is a parameter of the statement: the server     *)
(* rounds it to the column when it plans the statement for the values      *)
(* given, before the id is drawn, or when it carries out a plan made for   *)
(* any values, after the id is drawn; which of the two it does depends on  *)
(* how the driver and the connection have sent the statement.  So the      *)
(* refused insert has drawn an id or has not, here and in the other        *)
(* inserts of a price.                                                     *)
(***************************************************************************)
BeginMakeOffer(p, telegramId, orderId, offeredPrice, message) ==
  Begin(p, "makeOffer", "selectDriver", <<telegramId, orderId, offeredPrice, message>>, orderId)

\* a handler without the isVerified gate
MakeOfferSelectDriverUngated(p) ==
  /\ At(p, "makeOffer", "selectDriver")
  /\ LET driver == DriversByTelegramId(drivers, calls[p].args[1])
     IN  IF driver = {}
         THEN Return(p, FALSE, "driver_not_found", NULL)
         ELSE Goto(p, "selectOffers", Min(driver))
  /\ UNCHANGED <<tables, serials>>

\* const driver = await db.select().from(drivers).where(eq(telegramId)); the two early returns
MakeOfferSelectDriver(p) ==
  /\ At(p, "makeOffer", "selectDriver")
  /\ LET driver == DriversByTelegramId(drivers, calls[p].args[1])
     IN  IF driver = {}
         THEN Return(p, FALSE, "driver_not_found", NULL)
         ELSE IF ~drivers[Min(driver)].isVerified
         THEN Return(p, FALSE, "not_verified", NULL)
         ELSE Goto(p, "selectOffers", Min(driver))
  /\ UNCHANGED <<tables, serials>>

\* const existingOffer = await db.select().from(driverOffers).where(and(...))
MakeOfferSelectOffers(p) ==
  /\ At(p, "makeOffer", "selectOffers")
  /\ IF OffersOfDriverOnOrder(driverOffers, calls[p].args[2], calls[p].loc) # {}
     THEN Return(p, FALSE, "duplicate_offer", NULL)
     ELSE Goto(p, "insertOffer", calls[p].loc)
  /\ UNCHANGED <<tables, serials>>

\* await db.insert(driverOffers).values({...}); return
MakeOfferInsert(p) ==
  /\ At(p, "makeOffer", "insertOffer")
  /\ LET a == calls[p].args
         id == serials.driverOffers + 1
     IN  IF Overflows(a[3])
         THEN /\ Return(p, FALSE, "error", NULL)
              /\ serials' \in {serials, [serials EXCEPT !.driverOffers = id]}
              /\ UNCHANGED tables
         ELSE /\ driverOffers' = driverOffers @@ (id :> NewOfferRow(a[2], calls[p].loc, a[3], a[4]))
              /\ serials' = [serials EXCEPT !.driverOffers = id]
              /\ Return(p, TRUE, "offer_sent", NULL)
              /\ UNCHANGED <<passengers, drivers, driverDocuments, orders, ratings,
                             priceNegotiations>>

(***************************************************************************)
(* registerPassengerTool                                                   *)
(***************************************************************************)
BeginRegisterPassenger(p, telegramId, firstName, phoneNumber) ==
  Begin(p, "registerPassenger", "selectPassenger", <<telegramId, firstName, phoneNumber>>, 0)

\* a handler that stores the new name and phone on the existing profile
RegisterPassengerSelectOverwriting(p) ==
  /\ At(p, "registerPassenger", "selectPassenger")
  /\ LET existingPassenger == PassengersByTelegramId(passengers, calls[p].args[1])
     IN  IF existingPassenger # {}
         THEN /\ passengers' = [passengers EXCEPT ![Min(existingPassenger)] =
                                  [@ EXCEPT !.firstName = calls[p].args[2],
                                            !.phoneNumber = calls[p].args[3]]]
              /\ Return(p, TRUE, "welcome_back", Min(existingPassenger))
         ELSE /\ Goto(p, "insertPassenger", calls[p].loc)
              /\ UNCHANGED passengers
  /\ UNCHANGED <<serials, drivers, driverDocuments, orders, driverOffers, ratings, priceNegotiations>>

\* const existingPassenger = await db.select().from(passengers).where(eq(telegramId))
RegisterPassengerSelect(p) ==
  /\ At(p, "registerPassenger", "selectPassenger")
  /\ LET existingPassenger == PassengersByTelegramId(passengers, calls[p].args[1])
     IN  IF existingPassenger # {}
         THEN Return(p, TRUE, "welcome_back", Min(existingPassenger))
         ELSE Goto(p, "insertPassenger", calls[p].loc)
  /\ UNCHANGED <<tables, serials>>

\* const newPassenger = await db.insert(passengers).values({...}).returning(); return.
\* telegram_id is unique: the store refuses the insert after the insert has drawn its id
RegisterPassengerInsert(p) ==
  /\ At(p, "registerPassenger", "insertPassenger")
  /\ LET a == calls[p].args
         id == serials.passengers + 1
     IN  /\ serials' = [serials EXCEPT !.passengers = id]
         /\ IF PassengersByTelegramId(passengers, a[1]) # {}
            THEN /\ Return(p, FALSE, "error", NULL)
                 /\ UNCHANGED tables
            ELSE /\ passengers' = passengers @@ (id :> NewPassengerRow(a[1], a[2], a[3]))
                 /\ Return(p, TRUE, "registered", id)
                 /\ UNCHANGED <<drivers, driverDocuments, orders, driverOffers, ratings,
                                priceNegotiations>>

(***************************************************************************)
(* createOrderTool                                                         *)
(***************************************************************************)
BeginCreateOrder(p, telegramId, fromAddress, toAddress, suggestedPrice) ==
  Begin(p, "createOrder", "selectPassenger",
        <<telegramId, fromAddress, toAddress, suggestedPrice>>, 0)

\* a handler that inserts the order whoever calls
CreateOrderSelectForAnyone(p) ==
  /\ At(p, "createOrder", "selectPassenger")
  /\ LET passenger == PassengersByTelegramId(passengers, calls[p].args[1])
     IN  Goto(p, "insertOrder", IF passenger = {} THEN 0 ELSE Min(passenger))
  /\ UNCHANGED <<tables, serials>>

\* const passenger = await db.select().from(passengers).where(eq(telegramId))
CreateOrderSelect(p) ==
  /\ At(p, "createOrder", "selectPassenger")
  /\ LET passenger == PassengersByTelegramId(passengers, calls[p].args[1])
     IN  IF passenger = {}
         THEN Return(p, FALSE, "passenger_not_found", NULL)
         ELSE Goto(p, "insertOrder", Min(passenger))
  /\ UNCHANGED <<tables, serials>>

\* const newOrder = await db.insert(orders).values({...}).returning(); return
CreateOrderInsert(p) ==
  /\ At(p, "createOrder", "insertOrder")
  /\ LET a == calls[p].args
         id == serials.orders + 1
     IN  IF Overflows(a[4])
         THEN /\ Return(p, FALSE, "error", NULL)
              /\ serials' \in {serials, [serials EXCEPT !.orders = id]}
              /\ UNCHANGED tables
         ELSE /\ orders' = orders @@ (id :> NewOrderRow(calls[p].loc, a[2], a[3], a[4]))
              /\ serials' = [serials EXCEPT !.orders = id]
              /\ Return(p, TRUE, "order_created", id)
              /\ UNCHANGED <<passengers, drivers, driverDocuments, driverOffers, ratings,
                             priceNegotiations>>

(***************************************************************************)
(* acceptOfferTool.  The driverInfo of the result, a formatting of the     *)
(* joined driver row, is left out of the result.                           *)
(***************************************************************************)
BeginAcceptOffer(p, offerId, orderId) ==
  Begin(p, "acceptOffer", "selectOffer", <<offerId, orderId>>, orderId)

\* a handler that stamps the order before it looks for the offer
AcceptOfferSelectBlind(p) ==
  /\ At(p, "acceptOffer", "selectOffer")
  /\ orders' = [i \in DOMAIN orders |->
                  IF i = calls[p].args[2] THEN [orders[i] EXCEPT !.status = "accepted"]
                  ELSE orders[i]]
  /\ IF calls[p].args[1] \notin DOMAIN driverOffers
     THEN Return(p, FALSE, "offer_not_found", NULL)
     ELSE Goto(p, "updateOrder", driverOffers[calls[p].args[1]])
  /\ UNCHANGED <<serials, passengers, drivers, driverDocuments, driverOffers, ratings, priceNegotiations>>

\* const offer = await db.select().from(driverOffers).leftJoin(drivers, ...).where(eq(id, offerId))
AcceptOfferSelect(p) ==
  /\ At(p, "acceptOffer", "selectOffer")
  /\ IF calls[p].args[1] \notin DOMAIN driverOffers
     THEN Return(p, FALSE, "offer_not_found", NULL)
     ELSE Goto(p, "updateOrder", driverOffers[calls[p].args[1]])
  /\ UNCHANGED <<tables, serials>>

\* await db.update(orders).set({...}).where(eq(orders.id, orderId))
AcceptOfferUpdateOrder(p) ==
  /\ At(p, "acceptOffer", "updateOrder")
  /\ orders' = SetOrderAccepted(orders, calls[p].args[2], calls[p].loc)
  /\ Goto(p, "updateOffer", calls[p].loc)
  /\ UNCHANGED <<serials, passengers, drivers, driverDocuments, driverOffers, ratings, priceNegotiations>>

\* await db.update(driverOffers).set({status: "accepted"}).where(eq(id, offerId)); return
AcceptOfferUpdateOffer(p) ==
  /\ At(p, "acceptOffer", "updateOffer")
  /\ driverOffers' = SetOfferAccepted(driverOffers, calls[p].args[1])
  /\ Return(p, TRUE, "offer_accepted", NULL)
  /\ UNCHANGED <<serials, passengers, drivers, driverDocuments, orders, ratings, priceNegotiations>>

(***************************************************************************)
(* makeCounterOfferTool                                                    *)
(***************************************************************************)
BeginMakeCounterOffer(p, orderId, telegramId, driverId, counterPrice) ==
  Begin(p, "makeCounterOffer", "selectPassenger",
        <<orderId, telegramId, driverId, counterPrice>>, orderId)

\* a handler that refuses an order that is not pending
MakeCounterOfferSelectOnPendingOnly(p) ==
  /\ At(p, "makeCounterOffer", "selectPassenger")
  /\ LET passenger == PassengersByTelegramId(passengers, calls[p].args[2])
     IN  IF passenger = {} \/ StatusOfOrder(calls[p].args[1]) # "pending"
         THEN Return(p, FALSE, "passenger_not_found", NULL)
         ELSE Goto(p, "insertNegotiation", Min(passenger))
  /\ UNCHANGED <<tables, serials>>

\* const passenger = await db.select().from(passengers).where(eq(telegramId))
MakeCounterOfferSelect(p) ==
  /\ At(p, "makeCounterOffer", "selectPassenger")
  /\ LET passenger == PassengersByTelegramId(passengers, calls[p].args[2])
     IN  IF passenger = {}
         THEN Return(p, FALSE, "passenger_not_found", NULL)
         ELSE Goto(p, "insertNegotiation", Min(passenger))
  /\ UNCHANGED <<tables, serials>>

\* await db.insert(priceNegotiations).values({...}); return
MakeCounterOfferInsert(p) ==
  /\ At(p, "makeCounterOffer", "insertNegotiation")
  /\ LET a == calls[p].args
         id == serials.priceNegotiations + 1
     IN  IF Overflows(a[4])
         THEN /\ Return(p, FALSE, "error", NULL)
              /\ serials' \in {serials, [serials EXCEPT !.priceNegotiations = id]}
              /\ UNCHANGED tables
         ELSE /\ priceNegotiations' =
                   priceNegotiations @@
                     (id :> NewNegotiationRow(a[1], calls[p].loc, "passenger", a[3], "driver", a[4]))
              /\ serials' = [serials EXCEPT !.priceNegotiations = id]
              /\ Return(p, TRUE, "counter_offer_sent", NULL)
              /\ UNCHANGED <<passengers, drivers, driverDocuments, orders, driverOffers, ratings>>

(***************************************************************************)
(* respondToCounterOfferTool.  An optional counterPrice that is not        *)
(* supplied is NULL.                                                       *)
(***************************************************************************)
BeginRespondToCounterOffer(p, telegramId, negotiationId, accept, counterPrice) ==
  Begin(p, "respondToCounterOffer", "selectDriver",
        <<telegramId, negotiationId, accept, counterPrice>>, 0)

\* const driver = await db.select().from(drivers).where(eq(telegramId)); the branch taken
RespondSelectDriver(p) ==
  /\ At(p, "respondToCounterOffer", "selectDriver")
  /\ LET driver == DriversByTelegramId(drivers, calls[p].args[1])
     IN  IF driver = {}
         THEN Return(p, FALSE, "driver_not_found", NULL)
         ELSE IF ~calls[p].args[3] /\ Truthy(calls[p].args[4])
         THEN Goto(p, "selectNegotiation", Min(driver))
         ELSE Goto(p, "updateNegotiation", Min(driver))
  /\ UNCHANGED <<tables, serials>>

\* an update that also confirms the order when the driver accepts
RespondUpdateNegotiationConfirmingOrder(p) ==
  /\ At(p, "respondToCounterOffer", "updateNegotiation")
  /\ LET accept == calls[p].args[3]
         n == calls[p].args[2]
     IN  /\ priceNegotiations' =
              SetNegotiationStatus(priceNegotiations, n, IF accept THEN "accepted" ELSE "rejected")
         /\ orders' = [i \in DOMAIN orders |->
                         IF accept /\ n \in DOMAIN priceNegotiations
                            /\ i = priceNegotiations[n].orderId
                         THEN [orders[i] EXCEPT !.status = "accepted"]
                         ELSE orders[i]]
         /\ Return(p, TRUE, IF accept THEN "negotiation_accepted" ELSE "negotiation_rejected", NULL)
  /\ UNCHANGED <<serials, passengers, drivers, driverDocuments, driverOffers, ratings>>

\* await db.update(priceNegotiations).set({status: "accepted"}) (or "rejected")
\*   .where(eq(priceNegotiations.id, negotiationId)); return
RespondUpdateNegotiation(p) ==
  /\ At(p, "respondToCounterOffer", "updateNegotiation")
  /\ LET accept == calls[p].args[3]
     IN  /\ priceNegotiations' =
              SetNegotiationStatus(priceNegotiations, calls[p].args[2],
                                   IF accept THEN "accepted" ELSE "rejected")
         /\ Return(p, TRUE, IF accept THEN "negotiation_accepted" ELSE "negotiation_rejected", NULL)
  /\ UNCHANGED <<serials, passengers, drivers, driverDocuments, orders, driverOffers, ratings>>

\* const negotiation = await db.select().from(priceNegotiations).where(eq(id, negotiationId))
RespondSelectNegotiation(p) ==
  /\ At(p, "respondToCounterOffer", "selectNegotiation")
  /\ LET n == calls[p].args[2]
     IN  IF n \notin DOMAIN priceNegotiations
         THEN Return(p, FALSE, "negotiation_not_found", NULL)
         ELSE Goto(p, "insertNegotiation",
                   [driverId |-> calls[p].loc, orderId |-> priceNegotiations[n].orderId,
                    fromUserId |-> priceNegotiations[n].fromUserId])
  /\ UNCHANGED <<tables, serials>>

\* await db.insert(priceNegotiations).values({...}); return
RespondInsertNegotiation(p) ==
  /\ At(p, "respondToCounterOffer", "insertNegotiation")
  /\ LET loc == calls[p].loc
         id == serials.priceNegotiations + 1
     IN  IF Overflows(calls[p].args[4])
         THEN /\ Return(p, FALSE, "error", NULL)
              /\ serials' \in {serials, [serials EXCEPT !.priceNegotiations = id]}
              /\ UNCHANGED tables
         ELSE /\ priceNegotiations' =
                   priceNegotiations @@
                     (id :> NewNegotiationRow(loc.orderId, loc.driverId, "driver", loc.fromUserId,
                                              "passenger", calls[p].args[4]))
              /\ serials' = [serials EXCEPT !.priceNegotiations = id]
              /\ Return(p, TRUE, "counter_offer_sent", NULL)
              /\ UNCHANGED <<passengers, drivers, driverDocuments, orders, driverOffers, ratings>>

(***************************************************************************)
(* setDriverStatusTool                                                     *)
(***************************************************************************)
BeginSetDriverStatus(p, telegramId, isOnline) ==
  Begin(p, "setDriverStatus", "selectDriver", <<telegramId, isOnline>>, 0)

\* const driver = await db.select().from(drivers).where(eq(drivers.telegramId, telegramId))
SetDriverStatusSelect(p) ==
  /\ At(p, "setDriverStatus", "selectDriver")
  /\ IF DriversByTelegramId(drivers, calls[p].args[1]) = {}
     THEN Return(p, FALSE, "driver_not_found", NULL)
     ELSE Goto(p, "updateDriver", calls[p].loc)
  /\ UNCHANGED <<tables, serials>>

\* await db.update(drivers).set({isOnline}).where(eq(drivers.telegramId, telegramId)); return
SetDriverStatusUpdate(p) ==
  /\ At(p, "setDriverStatus", "updateDriver")
  /\ drivers' = SetOnline(drivers, calls[p].args[1], calls[p].args[2])
  /\ Return(p, TRUE, IF calls[p].args[2] THEN "online" ELSE "offline", NULL)
  /\ UNCHANGED <<serials, passengers, driverDocuments, orders, driverOffers, ratings, priceNegotiations>>

(***************************************************************************)
(* getAvailableOrdersTool (listAvailableOrders).  Of each listed order the *)
(* result keeps the orderId; the addresses, the price and the joined       *)
(* passenger columns are left out.                                         *)
(***************************************************************************)
BeginGetAvailableOrders(p, telegramId) ==
  Begin(p, "getAvailableOrders", "selectDriver", <<telegramId>>, 0)

\* const driver = await db.select().from(drivers).where(eq(telegramId)); the three early returns
GetAvailableOrdersSelectDriver(p) ==
  /\ At(p, "getAvailableOrders", "selectDriver")
  /\ LET driver == DriversByTelegramId(drivers, calls[p].args[1])
     IN  IF driver = {}
         THEN Return(p, FALSE, "driver_not_found", <<>>)
         ELSE IF ~drivers[Min(driver)].isVerified
         THEN Return(p, FALSE, "not_verified", <<>>)
         ELSE IF ~drivers[Min(driver)].isOnline
         THEN Return(p, FALSE, "offline", <<>>)
         ELSE Goto(p, "selectOrders", calls[p].loc)
  /\ UNCHANGED <<tables, serials>>

\* const availableOrders = await db.select({...}).from(orders)...; return
GetAvailableOrdersSelectOrders(p) ==
  /\ At(p, "getAvailableOrders", "selectOrders")
  /\ Return(p, TRUE, "orders", AvailableOrders(orders))
  /\ UNCHANGED <<tables, serials>>

(***************************************************************************)
(* rateRideTool and its helper updateUserRating.  loc is what the call has *)
(* read: the order row, then the ids of the rater and of the user rated,   *)
(* then the sum and the number of the ratings the helper has selected.     *)
(***************************************************************************)
BeginRateRide(p, telegramId, orderId, userType, rating, comment) ==
  Begin(p, "rateRide", "selectOrder", <<telegramId, orderId, userType, rating, comment>>, orderId)

\* const order = await db.select().from(orders).where(eq(orders.id, orderId))
RateRideSelectOrder(p) ==
  /\ At(p, "rateRide", "selectOrder")
  /\ IF calls[p].args[2] \notin DOMAIN orders
     THEN Return(p, FALSE, "order_not_found", NULL)
     ELSE Goto(p, "selectUser", orders[calls[p].args[2]])
  /\ UNCHANGED <<tables, serials>>

\* const passenger = await db.select().from(passengers)... or const driver = ...
RateRideSelectUser(p) ==
  /\ At(p, "rateRide", "selectUser")
  /\ LET userType == calls[p].args[3]
         orderData == calls[p].loc
         passenger == PassengersByTelegramId(passengers, calls[p].args[1])
         driver == DriversByTelegramId(drivers, calls[p].args[1])
     IN  IF userType = "passenger" /\ NotParty(passenger, orderData.passengerId)
         THEN Return(p, FALSE, "not_passenger_of_order", NULL)
         ELSE IF userType = "driver" /\ NotParty(driver, orderData.acceptedDriverId)
         THEN Return(p, FALSE, "not_driver_of_order", NULL)
         ELSE IF userType = "passenger"
         THEN Goto(p, "selectRatings", [fromUserId |-> Min(passenger),
                                        toUserId |-> orderData.acceptedDriverId])
         ELSE Goto(p, "selectRatings", [fromUserId |-> Min(driver),
                                        toUserId |-> orderData.passengerId])
  /\ UNCHANGED <<tables, serials>>

\* const existingRating = await db.select().from(ratings).where(and(...))
RateRideSelectRatings(p) ==
  /\ At(p, "rateRide", "selectRatings")
  /\ IF RatingsOfUserOnOrder(ratings, calls[p].args[2], calls[p].loc.fromUserId) # {}
     THEN Return(p, FALSE, "already_rated", NULL)
     ELSE Goto(p, "insertRating", calls[p].loc)
  /\ UNCHANGED <<tables, serials>>

\* await db.insert(ratings).values({...}); to_user_id is NOT NULL, so the store refuses a
\* rating without a user to rate, after the insert has drawn its id, and the catch returns
RateRideInsert(p) ==
  /\ At(p, "rateRide", "insertRating")
  /\ LET a == calls[p].args
         loc == calls[p].loc
         id == serials.ratings + 1
     IN  /\ serials' = [serials EXCEPT !.ratings = id]
         /\ IF loc.toUserId = NULL
            THEN /\ Return(p, FALSE, "error", NULL)
                 /\ UNCHANGED tables
            ELSE /\ ratings' = ratings @@
                                 (id :> NewRatingRow(a[2], loc.fromUserId, a[3], loc.toUserId,
                                                     OtherType(a[3]), a[4], a[5]))
                 /\ Goto(p, "selectReceived", loc)
                 /\ UNCHANGED <<passengers, drivers, driverDocuments, orders, driverOffers,
                                priceNegotiations>>

\* updateUserRating: const userRatings = await db.select({rating}).from(ratings).where(and(...));
\* if (userRatings.length === 0) return
RateRideSelectReceived(p) ==
  /\ At(p, "rateRide", "selectReceived")
  /\ LET userRatings == RatingsTo(ratings, calls[p].loc.toUserId, OtherType(calls[p].args[3]))
     IN  IF userRatings = {}
         THEN Return(p, TRUE, "rated", NULL)
         ELSE Goto(p, "updateProfile", [toUserId |-> calls[p].loc.toUserId,
                                        sum |-> SumOfRatings(ratings, userRatings),
                                        n |-> Cardinality(userRatings)])
  /\ UNCHANGED <<tables, serials>>

\* updateUserRating: await db.update(drivers or passengers).set({rating, totalRides}); return
RateRideUpdateProfile(p) ==
  /\ At(p, "rateRide", "updateProfile")
  /\ LET loc == calls[p].loc
     IN  IF OtherType(calls[p].args[3]) = "driver"
         THEN /\ drivers' = SetUserRating(drivers, loc.toUserId, ToFixed2(loc.sum, loc.n), loc.n)
              /\ UNCHANGED passengers
         ELSE /\ passengers' = SetUserRating(passengers, loc.toUserId, ToFixed2(loc.sum, loc.n),
                                             loc.n)
              /\ UNCHANGED drivers
  /\ Return(p, TRUE, "rated", NULL)
  /\ UNCHANGED <<serials, driverDocuments, orders, driverOffers, ratings, priceNegotiations>>

(***************************************************************************)
(* getUserRatingTool: what it reports is the rating (hundredths), the      *)
(* number of ratings and the recent comments.                              *)
(***************************************************************************)
BeginGetUserRating(p, userId, userType) ==
  Begin(p, "getUserRating", "selectRatings", <<userId, userType>>, 0)

\* const userRatings = await db.select({...}).from(ratings).where(and(...)).orderBy(createdAt);
\* return
GetUserRatingSelect(p) ==
  /\ At(p, "getUserRating", "selectRatings")
  /\ LET userId == calls[p].args[1]
         userType == calls[p].args[2]
         userRatings == RatingsTo(ratings, userId, userType)
     IN  IF userRatings = {}
         THEN Return(p, TRUE, "no_ratings",
                     [rating |-> 500, totalRatings |-> 0, recentComments |-> <<>>])
         ELSE Return(p, TRUE, "rating",
                     [rating |-> ToFixed2(SumOfRatings(ratings, userRatings),
                                          Cardinality(userRatings)),
                      totalRatings |-> Cardinality(userRatings),
                      recentComments |-> RecentComments(ratings, userId, userType)])
  /\ UNCHANGED <<tables, serials>>

(***************************************************************************)
(* Store failures.  A statement the store fails throws in the handler.     *)
(* Every statement of a handler is inside the try of its execute, whose    *)
(* catch logs and returns success false.  The statements of                *)
(* updateUserRating and checkAndUpdateDriverVerification are inside the    *)
(* try of the helper, whose catch logs and returns to the handler, and the *)
(* handler goes on to return success.  A failed statement changes no row;  *)
(* a failed insert has drawn its id or has not.  What the catch of         *)
(* getAvailableOrders returns carries the empty list of orders.            *)
(***************************************************************************)
\* the statements of the two helpers
InHelper(op, pc) ==
  \/ op = "rateRide" /\ pc \in {"selectReceived", "updateProfile"}
  \/ op = "processDocumentVerification" /\ pc \in {"selectDocuments", "updateDriver"}

\* the result code of the call of p when it returns success after its helper
SuccessCode(p) ==
  IF calls[p].op = "rateRide" THEN "rated" ELSE VerdictCode(calls[p].args[2])

\* the table the statement the call of p sends next inserts a row into, if it is an insert
InsertsInto(p) ==
  CASE calls[p].pc = "insertDriver" -> {"drivers"}
    [] calls[p].pc = "insertPassenger" -> {"passengers"}
    [] calls[p].pc = "insertOrder" -> {"orders"}
    [] calls[p].pc = "insertOffer" -> {"driverOffers"}
    [] calls[p].pc = "insertNegotiation" -> {"priceNegotiations"}
    [] calls[p].pc = "insertRating" -> {"ratings"}
    [] calls[p].pc = "writeDocument" /\ calls[p].loc.documentId = NULL -> {"driverDocuments"}
    [] OTHER -> {}

\* what the result of a catch carries: orders: [] in getAvailableOrders, nothing elsewhere
CaughtRet(op) == IF op = "getAvailableOrders" THEN <<>> ELSE NULL

\* a store whose every failure fails the call
StoreFailsTheCall(p) ==
  /\ calls[p].pc \notin {"idle", "done"}
  /\ calls' = [calls EXCEPT ![p] = [@ EXCEPT !.pc = "done", !.loc = <<>>, !.before = <<>>,
                                              !.success = FALSE, !.result = "error",
                                              !.ret = CaughtRet(calls[p].op),
                                              !.fault = calls[p].pc]]
  /\ last' = Returned(calls[p].op, calls[p].args, FALSE, "error", CaughtRet(calls[p].op))
  /\ serials' \in {serials} \cup {[serials EXCEPT ![t] = @ + 1] : t \in InsertsInto(p)}
  /\ UNCHANGED <<tables, played>>

\* the statement the call of p sends next fails
StoreFails(p) ==
  /\ calls[p].pc \notin {"idle", "done"}
  /\ LET success == InHelper(calls[p].op, calls[p].pc)
         result == IF success THEN SuccessCode(p) ELSE "error"
         ret == CaughtRet(calls[p].op)
     IN  /\ calls' = [calls EXCEPT ![p] = [@ EXCEPT !.pc = "done", !.loc = <<>>, !.before = <<>>,
                                                     !.success = success, !.result = result,
                                                     !.ret = ret, !.fault = calls[p].pc]]
         /\ last' = Returned(calls[p].op, calls[p].args, success, result, ret)
  /\ serials' \in {serials} \cup {[serials EXCEPT ![t] = @ + 1] : t \in InsertsInto(p)}
  /\ UNCHANGED <<tables, played>>

(***************************************************************************)
(* The statements of the tools, by tool.                                   *)
(***************************************************************************)
RegisterDriverSteps(p) ==
  \/ RegisterDriverSelect(p)
  \/ RegisterDriverInsert(p)

UploadDocumentReads(p) ==
  \/ UploadDocumentSelectDriver(p)
  \/ UploadDocumentSelectDocuments(p)

VerificationSteps(p) ==
  \/ VerificationUpdateDocument(p)
  \/ VerificationSelectDocument(p)
  \/ VerificationSelectDocuments(p)
  \/ VerificationUpdateDriver(p)

RegisterPassengerSteps(p) ==
  \/ RegisterPassengerSelect(p)
  \/ RegisterPassengerInsert(p)

MakeOfferReads(p) ==
  \/ MakeOfferSelectDriver(p)
  \/ MakeOfferSelectOffers(p)

AcceptOfferSteps(p) ==
  \/ AcceptOfferSelect(p)
  \/ AcceptOfferUpdateOrder(p)
  \/ AcceptOfferUpdateOffer(p)

RateRideSteps(p) ==
  \/ RateRideSelectOrder(p)
  \/ RateRideSelectUser(p)
  \/ RateRideSelectRatings(p)
  \/ RateRideInsert(p)
  \/ RateRideSelectReceived(p)
  \/ RateRideUpdateProfile(p)

\* the statements of the calls of Onboarding
OnboardingSteps(p) ==
  \/ RegisterDriverSteps(p)
  \/ UploadDocumentReads(p)
  \/ UploadDocumentWrite(p)
  \/ VerificationSteps(p)

(***************************************************************************)
(* LedgerSpec: the verification ledger, one call at a time.  Drivers       *)
(* register, submit and resubmit documents of every category, and          *)
(* documents are approved and rejected in any order.                       *)
(***************************************************************************)
LedgerNext ==
  \/ /\ UNCHANGED played
     /\ \E h \in DriverHandles :
          BeginRegisterDriver(Caller, h, "Ivan", "+7900", "Lada", "white", "A001AA")
  \/ /\ UNCHANGED played
     /\ \E h \in DriverHandles, t \in DocTypes, d \in Payloads :
          BeginUploadDocument(Caller, h, t, d)
  \/ /\ UNCHANGED played
     /\ \E id \in 1..MaxDocs, a \in BOOLEAN, r \in {"blurry"} :
          BeginProcessDocumentVerification(Caller, id, a, r)
  \/ \E p \in Processes : RegisterDriverSteps(p)
  \/ \E p \in Processes : UploadDocumentReads(p)
  \/ \E p \in Processes : UploadDocumentWrite(p) /\ serials'.driverDocuments <= MaxDocs
  \/ \E p \in Processes : VerificationSteps(p)

LedgerSpec == Init /\ [][LedgerNext]_vars

(***************************************************************************)
(* GateSpec: the ledger and the offer gate, one call at a time.  A driver  *)
(* registers, submits and resubmits documents with either payload,         *)
(* documents are approved and rejected, with a reason or with an empty     *)
(* one, and the driver asks for the verification status and makes offers.  *)
(* makeOffer reads no order, so no order is created.                       *)
(***************************************************************************)
GatePayloads == {"scan", "rescan"}
\* the rejectionReason argument: a text and the empty text
GateReasons == {"blurry", ""}
\* the offeredPrice of makeOffer: 550 and -0.015, which is stored as -0.02
GatePrices == {550000, -15}
\* the message of makeOffer: not supplied, empty and a text
GateMessages == {NullText, "", "call me"}

GateNext ==
  \/ /\ UNCHANGED played
     /\ \E h \in GateHandles :
          BeginRegisterDriver(Caller, h, "Ivan", "+7900", "Lada", "white", "A001AA")
  \/ /\ UNCHANGED played
     /\ \E h \in GateHandles, t \in DocTypes, d \in GatePayloads :
          BeginUploadDocument(Caller, h, t, d)
  \/ /\ UNCHANGED played
     /\ \E id \in 1..MaxDocs, a \in BOOLEAN, r \in GateReasons :
          BeginProcessDocumentVerification(Caller, id, a, r)
  \/ /\ UNCHANGED played
     /\ \E h \in GateHandles : BeginCheckVerificationStatus(Caller, h)
  \/ /\ UNCHANGED played
     /\ \E h \in GateHandles, o \in OrderIdInputs, a \in GatePrices, m \in GateMessages :
          BeginMakeOffer(Caller, h, o, a, m)
  \/ \E p \in Processes : RegisterDriverSteps(p)
  \/ \E p \in Processes : UploadDocumentReads(p)
  \/ \E p \in Processes : UploadDocumentWrite(p) /\ serials'.driverDocuments <= MaxDocs
  \/ \E p \in Processes : VerificationSteps(p)
  \/ \E p \in Processes : CheckVerificationStatusSelectDriver(p)
  \/ \E p \in Processes : CheckVerificationStatusSelectDocuments(p)
  \/ \E p \in Processes : MakeOfferReads(p)
  \/ \E p \in Processes : MakeOfferInsert(p) /\ serials'.driverOffers <= MaxOffers

GateSpec == Init /\ [][GateNext]_vars

(***************************************************************************)
(* Scripts.  The specifications of the marketplace start from the empty    *)
(* store and fill it first by a fixed sequence of calls that Caller makes, *)
(* one at a time and each once; played is the number of calls of the       *)
(* script that Caller has begun.  The other calls of a specification begin *)
(* when the last call of its script has returned.  The specifications      *)
(* without a script leave played at 0.                                     *)
(***************************************************************************)
\* d1 and d2 register and have both required documents approved; d3 registers
Onboarding ==
  << [op |-> "registerDriver", h |-> "d1"],
     [op |-> "uploadDocument", h |-> "d1", t |-> "license"],
     [op |-> "uploadDocument", h |-> "d1", t |-> "vehicle_registration"],
     [op |-> "processDocumentVerification", id |-> 1],
     [op |-> "processDocumentVerification", id |-> 2],
     [op |-> "registerDriver", h |-> "d2"],
     [op |-> "uploadDocument", h |-> "d2", t |-> "license"],
     [op |-> "uploadDocument", h |-> "d2", t |-> "vehicle_registration"],
     [op |-> "processDocumentVerification", id |-> 3],
     [op |-> "processDocumentVerification", id |-> 4],
     [op |-> "registerDriver", h |-> "d3"] >>

\* then p1 registers and creates order 1 at 500
OrderPlaced ==
  Onboarding \o << [op |-> "registerPassenger", h |-> "p1"],
                   [op |-> "createOrder", h |-> "p1", p |-> 500000] >>

\* then d1 offers 600.004 and d2 offers 550 on order 1
OffersPlaced ==
  OrderPlaced \o << [op |-> "makeOffer", h |-> "d1", o |-> 1, p |-> 600004],
                    [op |-> "makeOffer", h |-> "d2", o |-> 1, p |-> 550000] >>

\* p1 and p2 register; p1 creates orders 1, 2 and 3 and p2 creates order 4; d1 offers on
\* orders 1, 2 and 3 and its offers are accepted; order 4 stays pending
RidesAccepted ==
  Onboarding \o << [op |-> "registerPassenger", h |-> "p1"],
                   [op |-> "registerPassenger", h |-> "p2"],
                   [op |-> "createOrder", h |-> "p1", p |-> 500000],
                   [op |-> "createOrder", h |-> "p1", p |-> 500000],
                   [op |-> "createOrder", h |-> "p1", p |-> 500000],
                   [op |-> "createOrder", h |-> "p2", p |-> 500000],
                   [op |-> "makeOffer", h |-> "d1", o |-> 1, p |-> 600004],
                   [op |-> "makeOffer", h |-> "d1", o |-> 2, p |-> 550000],
                   [op |-> "makeOffer", h |-> "d1", o |-> 3, p |-> 550000],
                   [op |-> "acceptOffer", f |-> 1, o |-> 1],
                   [op |-> "acceptOffer", f |-> 2, o |-> 2],
                   [op |-> "acceptOffer", f |-> 3, o |-> 3] >>

\* every call of the script has begun and has returned
Played(script) == played >= Len(script) /\ Quiet

\* Caller begins the next call of the script
Play(script) ==
  /\ played < Len(script)
  /\ played' = played + 1
  /\ LET c == script[played + 1]
     IN  CASE c.op = "registerDriver" ->
                BeginRegisterDriver(Caller, c.h, "Ivan", "+7900", "Lada", "white", "A001AA")
           [] c.op = "uploadDocument" -> BeginUploadDocument(Caller, c.h, c.t, "scan")
           [] c.op = "processDocumentVerification" ->
                BeginProcessDocumentVerification(Caller, c.id, TRUE, NullText)
           [] c.op = "registerPassenger" -> BeginRegisterPassenger(Caller, c.h, "Anna", "+7901")
           [] c.op = "createOrder" -> BeginCreateOrder(Caller, c.h, "A", "B", c.p)
           [] c.op = "makeOffer" -> BeginMakeOffer(Caller, c.h, c.o, c.p, NullText)
           [] c.op = "acceptOffer" -> BeginAcceptOffer(Caller, c.f, c.o)

(***************************************************************************)
(* Spec: the marketplace, one call at a time.  After Onboarding,           *)
(* passengers register and create orders, drivers make offers and offers   *)
(* are accepted, in any order.                                             *)
(***************************************************************************)
\* the message of makeOffer: not supplied and empty
Messages == {NullText, ""}

Next ==
  \/ Play(Onboarding)
  \/ /\ Played(Onboarding)
     /\ UNCHANGED played
     /\ \E h \in {"p1"} : BeginRegisterPassenger(Caller, h, "Anna", "+7901")
  \/ /\ Played(Onboarding)
     /\ UNCHANGED played
     /\ \E h \in PassengerHandles, a \in SuggestedPrices : BeginCreateOrder(Caller, h, "A", "B", a)
  \/ /\ Played(Onboarding)
     /\ UNCHANGED played
     /\ \E h \in MarketDriverHandles, o \in OrderIdInputs, a \in PriceInputs, m \in Messages :
          BeginMakeOffer(Caller, h, o, a, m)
  \/ /\ Played(Onboarding)
     /\ UNCHANGED played
     /\ \E f \in OfferIdInputs, o \in OrderIdInputs : BeginAcceptOffer(Caller, f, o)
  \/ \E p \in Processes : OnboardingSteps(p)
  \/ \E p \in Processes : RegisterPassengerSteps(p)
  \/ \E p \in Processes : CreateOrderSelect(p)
  \/ \E p \in Processes : CreateOrderInsert(p) /\ serials'.orders <= MaxOrders
  \/ \E p \in Processes : MakeOfferReads(p)
  \/ \E p \in Processes : MakeOfferInsert(p) /\ serials'.driverOffers <= MaxOffers
  \/ \E p \in Processes : AcceptOfferSteps(p)

Spec == Init /\ [][Next]_vars

(***************************************************************************)
(* RegistrationSpec: after Onboarding, passengers and drivers register and *)
(* register again under other names, phones and cars, one call at a time.  *)
(***************************************************************************)
\* d1 is registered and verified by Onboarding, d4 is not registered
RegisteringDrivers == {"d1", "d4"}
Names == {"Ivan", "Oleg"}
Phones == {"+7900", "+7999"}
CarModels == {"Lada", "Kia"}

RegistrationNext ==
  \/ Play(Onboarding)
  \/ /\ Played(Onboarding)
     /\ UNCHANGED played
     /\ \E h \in PassengerHandles, n \in Names, ph \in Phones :
          BeginRegisterPassenger(Caller, h, n, ph)
  \/ /\ Played(Onboarding)
     /\ UNCHANGED played
     /\ \E h \in RegisteringDrivers, n \in Names, ph \in Phones, m \in CarModels :
          BeginRegisterDriver(Caller, h, n, ph, m, "white", "A001AA")
  \/ \E p \in Processes : OnboardingSteps(p)
  \/ \E p \in Processes : RegisterPassengerSteps(p)

RegistrationSpec == Init /\ [][RegistrationNext]_vars

(***************************************************************************)
(* ListingSpec: after TwoOrdersOffered, drivers go online and offline and  *)
(* list the available orders while offers are accepted, one call at a time.*)
(***************************************************************************)
\* p1 registers and creates orders 1 and 2; d1 offers on order 1 and d2 on order 2
TwoOrdersOffered ==
  Onboarding \o << [op |-> "registerPassenger", h |-> "p1"],
                   [op |-> "createOrder", h |-> "p1", p |-> 500000],
                   [op |-> "createOrder", h |-> "p1", p |-> 500000],
                   [op |-> "makeOffer", h |-> "d1", o |-> 1, p |-> 600004],
                   [op |-> "makeOffer", h |-> "d2", o |-> 2, p |-> 550000] >>

\* the statements of the calls that follow Onboarding in a script
PlacingSteps(p) ==
  \/ RegisterPassengerSteps(p)
  \/ CreateOrderSelect(p)
  \/ CreateOrderInsert(p)
  \/ MakeOfferReads(p)
  \/ MakeOfferInsert(p)

\* the callers: d1 is verified, d3 is registered and not verified, d4 is not registered;
\* the offers and the orders named are 1 and 2
ListingNext ==
  \/ Play(TwoOrdersOffered)
  \/ /\ Played(TwoOrdersOffered)
     /\ UNCHANGED played
     /\ \E h \in {"d1", "d3", "d4"}, b \in BOOLEAN : BeginSetDriverStatus(Caller, h, b)
  \/ /\ Played(TwoOrdersOffered)
     /\ UNCHANGED played
     /\ \E h \in {"d1", "d3", "d4"} : BeginGetAvailableOrders(Caller, h)
  \/ /\ Played(TwoOrdersOffered)
     /\ UNCHANGED played
     /\ \E f \in (1..2), o \in (1..2) : BeginAcceptOffer(Caller, f, o)
  \/ \E p \in Processes : OnboardingSteps(p)
  \/ \E p \in Processes : PlacingSteps(p)
  \/ \E p \in Processes : SetDriverStatusSelect(p)
  \/ \E p \in Processes : SetDriverStatusUpdate(p)
  \/ \E p \in Processes : GetAvailableOrdersSelectDriver(p)
  \/ \E p \in Processes : GetAvailableOrdersSelectOrders(p)
  \/ \E p \in Processes : AcceptOfferSteps(p)

ListingSpec == Init /\ [][ListingNext]_vars

(***************************************************************************)
(* BiddingSpec: after TwoOrdersOffered, d1 and d2 make further offers on   *)
(* orders 1 and 2, offers are accepted, and the license and the vehicle    *)
(* registration of d1 are rejected and approved again, one call at a time. *)
(* A driver who has offered can so lose and regain the verified flag, and  *)
(* an accepted offer has sibling offers on its order and offers on the     *)
(* other order beside it.                                                  *)
(***************************************************************************)
\* ids of driver_offers the bidding specification hands out; callers name the offer ids
\* 1..MaxBids
MaxBids == 4

BiddingNext ==
  \/ Play(TwoOrdersOffered)
  \/ /\ Played(TwoOrdersOffered)
     /\ UNCHANGED played
     /\ \E h \in DriverHandles, o \in (1..2) : BeginMakeOffer(Caller, h, o, 550000, NullText)
  \/ /\ Played(TwoOrdersOffered)
     /\ UNCHANGED played
     /\ \E f \in (1..MaxBids), o \in (1..2) : BeginAcceptOffer(Caller, f, o)
  \/ /\ Played(TwoOrdersOffered)
     /\ UNCHANGED played
     /\ \E id \in (1..2), a \in BOOLEAN :
          BeginProcessDocumentVerification(Caller, id, a, "blurry")
  \/ \E p \in Processes : OnboardingSteps(p)
  \/ \E p \in Processes : RegisterPassengerSteps(p)
  \/ \E p \in Processes : CreateOrderSelect(p)
  \/ \E p \in Processes : CreateOrderInsert(p)
  \/ \E p \in Processes : MakeOfferReads(p)
  \/ \E p \in Processes : MakeOfferInsert(p) /\ serials'.driverOffers <= MaxBids
  \/ \E p \in Processes : AcceptOfferSteps(p)

BiddingSpec == Init /\ [][BiddingNext]_vars

(***************************************************************************)
(* NegotiationSpec: after OffersPlaced, passengers make counter offers to  *)
(* the drivers, drivers accept, counter and reject them, and the offer of  *)
(* d1 is accepted, one call at a time.                                     *)
(***************************************************************************)
\* rows of price_negotiations a specification inserts; callers name the ids 1..MaxNegotiations
MaxNegotiations == 2
\* d1 and d2 have offers on order 1, d4 is not registered
RespondingDrivers == {"d1", "d2", "d4"}
NegotiatedOrderIds == {1}
AddressedDriverIds == 1..2
\* the counterPrice of makeCounterOffer: 450, and 1000000, a price of seven digits
ProposedPrices == {450000, 1000000000}
\* the counterPrice of respondToCounterOffer: not supplied, 0 and 470
CounterPrices == {NULL, 0, 470000}

NegotiationNext ==
  \/ Play(OffersPlaced)
  \/ /\ Played(OffersPlaced)
     /\ UNCHANGED played
     /\ \E o \in NegotiatedOrderIds, h \in PassengerHandles, d \in AddressedDriverIds,
           c \in ProposedPrices : BeginMakeCounterOffer(Caller, o, h, d, c)
  \/ /\ Played(OffersPlaced)
     /\ UNCHANGED played
     /\ \E h \in RespondingDrivers, n \in 1..MaxNegotiations, a \in BOOLEAN, c \in CounterPrices :
          BeginRespondToCounterOffer(Caller, h, n, a, c)
  \/ /\ Played(OffersPlaced)
     /\ UNCHANGED played
     /\ BeginAcceptOffer(Caller, 1, 1)
  \/ \E p \in Processes : OnboardingSteps(p)
  \/ \E p \in Processes : PlacingSteps(p)
  \/ \E p \in Processes : MakeCounterOfferSelect(p)
  \/ \E p \in Processes : MakeCounterOfferInsert(p) /\ serials'.priceNegotiations <= MaxNegotiations
  \/ \E p \in Processes : RespondSelectDriver(p)
  \/ \E p \in Processes : RespondUpdateNegotiation(p)
  \/ \E p \in Processes : RespondSelectNegotiation(p)
  \/ \E p \in Processes : RespondInsertNegotiation(p) /\ serials'.priceNegotiations <= MaxNegotiations
  \/ \E p \in Processes : AcceptOfferSteps(p)

NegotiationSpec == Init /\ [][NegotiationNext]_vars

(***************************************************************************)
(* ThreadSpec: after RidesAccepted, the passengers p1 and p2 make counter  *)
(* offers on the orders of either of them and the driver d2 answers the    *)
(* negotiations with counter prices, one call at a time.                   *)
(***************************************************************************)
\* rows of price_negotiations the specification inserts; callers name the ids 1..MaxThread
MaxThread == 3

\* order 1 was placed by p1 and order 4 by p2; the driver addressed and answering is d2,
\* whose driver id is 2; the counterPrice of the answer is 470, or 1000000, a price of
\* seven digits
ThreadNext ==
  \/ Play(RidesAccepted)
  \/ /\ Played(RidesAccepted)
     /\ UNCHANGED played
     /\ \E o \in {1, 4}, h \in PassengerHandles, d \in {2},
           c \in ProposedPrices : BeginMakeCounterOffer(Caller, o, h, d, c)
  \/ /\ Played(RidesAccepted)
     /\ UNCHANGED played
     /\ \E h \in {"d2"}, n \in 1..MaxThread, c \in {470000, 1000000000} :
          BeginRespondToCounterOffer(Caller, h, n, FALSE, c)
  \/ \E p \in Processes : OnboardingSteps(p)
  \/ \E p \in Processes : PlacingSteps(p)
  \/ \E p \in Processes : AcceptOfferSteps(p)
  \/ \E p \in Processes : MakeCounterOfferSelect(p)
  \/ \E p \in Processes : MakeCounterOfferInsert(p) /\ serials'.priceNegotiations <= MaxThread
  \/ \E p \in Processes : RespondSelectDriver(p)
  \/ \E p \in Processes : RespondSelectNegotiation(p)
  \/ \E p \in Processes : RespondInsertNegotiation(p) /\ serials'.priceNegotiations <= MaxThread

ThreadSpec == Init /\ [][ThreadNext]_vars

(***************************************************************************)
(* RatingSpec: after RidesAccepted, the parties and other callers rate the *)
(* rides and ratings are read, one call at a time.                         *)
(***************************************************************************)
\* the parties of orders 1, 2 and 3
Raters == {"p1", "d1"}
RatedOrderIds == 1..3
UserTypes == {"passenger", "driver"}
\* the rating and the comment of a call: a caller who gives 5 leaves a comment, the
\* others leave an empty one
Reviews == {<<3, "">>, <<4, "">>, <<5, "thanks">>}
RatedUserIds == 1..2

RatingNext ==
  \/ Play(RidesAccepted)
  \/ /\ Played(RidesAccepted)
     /\ UNCHANGED played
     /\ \E h \in Raters, o \in RatedOrderIds, t \in UserTypes, r \in Reviews :
          BeginRateRide(Caller, h, o, t, r[1], r[2])
  \/ /\ Played(RidesAccepted)
     /\ UNCHANGED played
     /\ \E u \in RatedUserIds, t \in UserTypes : BeginGetUserRating(Caller, u, t)
  \/ \E p \in Processes : OnboardingSteps(p)
  \/ \E p \in Processes : PlacingSteps(p)
  \/ \E p \in Processes : AcceptOfferSteps(p)
  \/ \E p \in Processes : RateRideSteps(p)
  \/ \E p \in Processes : GetUserRatingSelect(p)

RatingSpec == Init /\ [][RatingNext]_vars

(***************************************************************************)
(* AuthSpec: after RidesAccepted, parties and strangers call rateRide on   *)
(* existing and missing orders, one call at a time.                        *)
(***************************************************************************)
\* ids of ratings the specification hands out: the six ratings of the parties of orders
\* 1, 2 and 3 and one more, for an insert the store refuses
MaxRatings == 7

\* p1 and d1 are the parties of orders 1, 2 and 3, p2 is the passenger of the pending
\* order 4, d2 is the driver of no order; no passenger has the telegram id of a driver
\* order 5 is the id of no order
AuthNext ==
  \/ Play(RidesAccepted)
  \/ /\ Played(RidesAccepted)
     /\ UNCHANGED played
     /\ \E h \in {"p1", "p2", "d1", "d2"}, o \in (1..5), t \in UserTypes :
          BeginRateRide(Caller, h, o, t, 5, "thanks")
  \/ \E p \in Processes : OnboardingSteps(p)
  \/ \E p \in Processes : PlacingSteps(p)
  \/ \E p \in Processes : AcceptOfferSteps(p)
  \/ \E p \in Processes : RateRideSteps(p) /\ serials'.ratings <= MaxRatings

AuthSpec == Init /\ [][AuthNext]_vars

(***************************************************************************)
(* AcceptRaceSpec: after OffersPlaced, each process of Procs makes one     *)
(* acceptOffer call, and the statements of the two calls interleave in any *)
(* order.                                                                  *)
(***************************************************************************)
AcceptRaceNext ==
  \/ Play(OffersPlaced)
  \/ /\ Played(OffersPlaced)
     /\ UNCHANGED played
     /\ \E p \in Procs, f \in OfferIdInputs, o \in OrderIdInputs : BeginAcceptOffer(p, f, o)
  \/ \E p \in Processes : OnboardingSteps(p)
  \/ \E p \in Processes : PlacingSteps(p)
  \/ \E p \in Processes : AcceptOfferSteps(p)

AcceptRaceSpec == Init /\ [][AcceptRaceNext]_vars

(***************************************************************************)
(* OfferRaceSpec: after OrderPlaced, each process of Procs makes one       *)
(* makeOffer call and the statements of the two calls interleave in any    *)
(* order.                                                                  *)
(***************************************************************************)
OfferRaceNext ==
  \/ Play(OrderPlaced)
  \/ /\ Played(OrderPlaced)
     /\ UNCHANGED played
     /\ \E p \in Procs, h \in MarketDriverHandles, o \in OrderIdInputs, a \in PriceInputs :
          BeginMakeOffer(p, h, o, a, NullText)
  \/ \E p \in Processes : OnboardingSteps(p)
  \/ \E p \in Processes : PlacingSteps(p)

OfferRaceSpec == Init /\ [][OfferRaceNext]_vars

(***************************************************************************)
(* RateRaceSpec: after RidesAccepted, each process of Procs makes one      *)
(* rateRide call and the statements of the two calls interleave in any     *)
(* order.                                                                  *)
(***************************************************************************)
\* the calls rate orders 1 and 2 with 3 or 5 stars
RateRaceNext ==
  \/ Play(RidesAccepted)
  \/ /\ Played(RidesAccepted)
     /\ UNCHANGED played
     /\ \E p \in Procs, h \in Raters, o \in (1..2), t \in UserTypes, r \in {3, 5} :
          BeginRateRide(p, h, o, t, r, NullText)
  \/ \E p \in Processes : OnboardingSteps(p)
  \/ \E p \in Processes : PlacingSteps(p)
  \/ \E p \in Processes : AcceptOfferSteps(p)
  \/ \E p \in Processes : RateRideSteps(p)

RateRaceSpec == Init /\ [][RateRaceNext]_vars

(***************************************************************************)
(* SharedRaceSpec: after SharedDriverRides, each process of Procs makes    *)
(* one rateRide call as a passenger and the statements of the two calls    *)
(* interleave in any order.                                                *)
(***************************************************************************)
\* p1 and p2 register and create orders 1 and 2; d1 offers on both and both offers are
\* accepted
SharedDriverRides ==
  Onboarding \o << [op |-> "registerPassenger", h |-> "p1"],
                   [op |-> "registerPassenger", h |-> "p2"],
                   [op |-> "createOrder", h |-> "p1", p |-> 500000],
                   [op |-> "createOrder", h |-> "p2", p |-> 500000],
                   [op |-> "makeOffer", h |-> "d1", o |-> 1, p |-> 600004],
                   [op |-> "makeOffer", h |-> "d1", o |-> 2, p |-> 550000],
                   [op |-> "acceptOffer", f |-> 1, o |-> 1],
                   [op |-> "acceptOffer", f |-> 2, o |-> 2] >>

\* the passengers rate orders 1 and 2 with 3 or 5 stars
SharedRaceNext ==
  \/ Play(SharedDriverRides)
  \/ /\ Played(SharedDriverRides)
     /\ UNCHANGED played
     /\ \E p \in Procs, h \in PassengerHandles, o \in (1..2), r \in {3, 5} :
          BeginRateRide(p, h, o, "passenger", r, NullText)
  \/ \E p \in Processes : OnboardingSteps(p)
  \/ \E p \in Processes : PlacingSteps(p)
  \/ \E p \in Processes : AcceptOfferSteps(p)
  \/ \E p \in Processes : RateRideSteps(p)

SharedRaceSpec == Init /\ [][SharedRaceNext]_vars

(***************************************************************************)
(* VerificationRaceSpec: after DriverVerified, each process of Procs makes *)
(* one processDocumentVerification call on a document of d1, the           *)
(* statements of the two calls interleave in any order, and Caller makes   *)
(* the makeOffer calls of d1 in between.                                   *)
(***************************************************************************)
\* d1 registers and has the license (document 1) and the vehicle registration
\* (document 2) approved
DriverVerified == SubSeq(Onboarding, 1, 5)

\* the calls adjudicate documents 1 and 2; d1 offers 550
VerificationRaceNext ==
  \/ Play(DriverVerified)
  \/ /\ Played(DriverVerified)
     /\ UNCHANGED played
     /\ \E p \in Procs, id \in (1..2), a \in BOOLEAN :
          BeginProcessDocumentVerification(p, id, a, NullText)
  \/ /\ Played(DriverVerified)
     /\ UNCHANGED played
     /\ \E o \in OrderIdInputs, a \in {550000} : BeginMakeOffer(Caller, "d1", o, a, NullText)
  \/ \E p \in Processes : OnboardingSteps(p)
  \/ \E p \in Processes : MakeOfferReads(p)
  \/ \E p \in Processes : MakeOfferInsert(p) /\ serials'.driverOffers <= MaxOffers

VerificationRaceSpec == Init /\ [][VerificationRaceNext]_vars

(***************************************************************************)
(* RegisterRaceSpec: d1 has registered; each process of Procs makes one    *)
(* registerPassenger or registerDriver call and the statements of the two  *)
(* calls interleave in any order.                                          *)
(***************************************************************************)
DriverRegistered == SubSeq(Onboarding, 1, 1)

RegisterRaceNext ==
  \/ Play(DriverRegistered)
  \/ /\ Played(DriverRegistered)
     /\ UNCHANGED played
     /\ \E p \in Procs, h \in PassengerHandles, n \in Names :
          BeginRegisterPassenger(p, h, n, "+7901")
  \/ /\ Played(DriverRegistered)
     /\ UNCHANGED played
     /\ \E p \in Procs, h \in DriverHandles, n \in Names :
          BeginRegisterDriver(p, h, n, "+7900", "Lada", "white", "A001AA")
  \/ \E p \in Processes : RegisterPassengerSteps(p)
  \/ \E p \in Processes : RegisterDriverSteps(p)

RegisterRaceSpec == Init /\ [][RegisterRaceNext]_vars

(***************************************************************************)
(* UploadRaceSpec: d1 has registered; each process of Procs makes one      *)
(* uploadDocument call for d1 and the statements of the two calls          *)
(* interleave in any order.                                                *)
(***************************************************************************)
UploadRaceNext ==
  \/ Play(DriverRegistered)
  \/ /\ Played(DriverRegistered)
     /\ UNCHANGED played
     /\ \E p \in Procs, t \in DocTypes, d \in GatePayloads : BeginUploadDocument(p, "d1", t, d)
  \/ \E p \in Processes : RegisterDriverSteps(p)
  \/ \E p \in Processes : UploadDocumentReads(p)
  \/ \E p \in Processes : UploadDocumentWrite(p)

UploadRaceSpec == Init /\ [][UploadRaceNext]_vars

(***************************************************************************)
(* FaultSpec: after RidesAccepted, each process of Procs makes one         *)
(* makeOffer, acceptOffer, rateRide or processDocumentVerification call;   *)
(* the statements of the two calls interleave and any of them can fail.    *)
(***************************************************************************)
\* d2 is verified and has no offer on order 4, and offers 550; offer 1 is the accepted
\* offer of order 1, the order of p1 accepted by d1, which its parties rate with 4 stars;
\* document 1 is the license of d1
FaultNext ==
  \/ Play(RidesAccepted)
  \/ /\ Played(RidesAccepted)
     /\ UNCHANGED played
     /\ \E p \in Procs, h \in {"d2"}, o \in {4}, a \in {550000} :
          BeginMakeOffer(p, h, o, a, NullText)
  \/ /\ Played(RidesAccepted)
     /\ UNCHANGED played
     /\ \E p \in Procs, f \in {1}, o \in {1} : BeginAcceptOffer(p, f, o)
  \/ /\ Played(RidesAccepted)
     /\ UNCHANGED played
     /\ \E p \in Procs, h \in Raters, o \in {1}, t \in UserTypes, r \in {4} :
          BeginRateRide(p, h, o, t, r, NullText)
  \/ /\ Played(RidesAccepted)
     /\ UNCHANGED played
     /\ \E p \in Procs, id \in {1}, a \in BOOLEAN :
          BeginProcessDocumentVerification(p, id, a, NullText)
  \/ \E p \in Processes : OnboardingSteps(p)
  \/ \E p \in Processes : PlacingSteps(p)
  \/ \E p \in Processes : AcceptOfferSteps(p)
  \/ \E p \in Processes : RateRideSteps(p)
  \/ \E p \in Procs : StoreFails(p)

FaultSpec == Init /\ [][FaultNext]_vars

(***************************************************************************)
(* Properties.  A property of a call is stated on the step in which the    *)
(* call returns, about the store as it was when the call began and the     *)
(* store as the call leaves it; a property of the store right after a call *)
(* is stated on the states in which Caller has no call in flight.          *)
(***************************************************************************)
\* a call of the tool by Caller returns in this step
CallReturns(op) ==
  /\ calls[Caller].op = op
  /\ calls[Caller].pc \notin {"idle", "done"}
  /\ calls'[Caller].pc = "done"

\* the tables as they were when the call of Caller began
PassengersBefore == calls[Caller].before[1]
DriversBefore == calls[Caller].before[2]
DocumentsBefore == calls[Caller].before[3]
OrdersBefore == calls[Caller].before[4]
OffersBefore == calls[Caller].before[5]
RatingsBefore == calls[Caller].before[6]
NegotiationsBefore == calls[Caller].before[7]

\* the offers a driver has on an order
OffersBy(offs, orderId, driverId) ==
  {i \in DOMAIN offs : offs[i].orderId = orderId /\ offs[i].driverId = driverId}

\* the accepted offers of an order
AcceptedOffersOf(offs, orderId) ==
  {i \in DOMAIN offs : offs[i].orderId = orderId /\ offs[i].status = "accepted"}

\* the driver has an approved document of the category
HasApproved(docs, driverId, type) ==
  \E i \in DOMAIN docs :
    docs[i].driverId = driverId /\ docs[i].documentType = type /\ docs[i].status = "approved"

\* the driver id of a registered telegram id
DriverIdOf(telegramId) == Min(DriversByTelegramId(drivers, telegramId))

\* the table is the table before with one row more, under the id k, the largest id
AddsRow(tbl, before, k) ==
  /\ k \notin DOMAIN before
  /\ DOMAIN tbl = DOMAIN before \cup {k}
  /\ \A i \in DOMAIN before : i < k /\ tbl[i] = before[i]

\* the number of rows of the table
Rows(tbl) == Cardinality(DOMAIN tbl)

\* C1 (AcceptRaceSpec): when two acceptOffer calls for two different offers of the
\* same order both began while the order was pending and both have returned, exactly
\* one returned success, the other returned the no-longer-available failure, and the
\* order carries the driver and the price of the winning offer.
C1_ExactlyOneAcceptanceWins ==
  \A p \in Procs : \A q \in Procs :
    ( /\ p # q
      /\ calls[p].op = "acceptOffer" /\ calls[p].pc = "done"
      /\ calls[q].op = "acceptOffer" /\ calls[q].pc = "done"
      /\ calls[p].seen = "pending" /\ calls[q].seen = "pending"
      /\ calls[p].args[2] = calls[q].args[2]
      /\ calls[p].args[1] # calls[q].args[1]
      /\ calls[p].args[1] \in DOMAIN driverOffers
      /\ calls[q].args[1] \in DOMAIN driverOffers
      /\ driverOffers[calls[p].args[1]].orderId = calls[p].args[2]
      /\ driverOffers[calls[q].args[1]].orderId = calls[q].args[2]
      /\ calls[p].success )
    => /\ ~calls[q].success
       /\ calls[q].result = "no_longer_available"
       /\ orders[calls[p].args[2]].acceptedDriverId = driverOffers[calls[p].args[1]].driverId
       /\ orders[calls[p].args[2]].finalPrice = driverOffers[calls[p].args[1]].offeredPrice

\* C2 (Spec): an acceptOffer call on an order whose status is not pending fails and
\* leaves the order as it was.
C2_AcceptOnlyWhenPending ==
  [][ ( /\ CallReturns("acceptOffer")
        /\ last'.args[2] \in DOMAIN OrdersBefore
        /\ OrdersBefore[last'.args[2]].status # "pending" )
      => /\ ~last'.success
         /\ orders'[last'.args[2]] = OrdersBefore[last'.args[2]] ]_vars

\* C3 (Spec): between calls, each order has at most one accepted offer, and an accepted
\* order's acceptedDriverId is the driver of that offer.
C3_OneAcceptedOfferPerOrder ==
  Quiet =>
    \A o \in DOMAIN orders :
      /\ Cardinality(AcceptedOffersOf(driverOffers, o)) <= 1
      /\ orders[o].status = "accepted" =>
           \E i \in AcceptedOffersOf(driverOffers, o) :
             driverOffers[i].driverId = orders[o].acceptedDriverId

\* C4 (Spec): an acceptOffer(offerId, orderId) call that returns success on a pending
\* order leaves the order accepted, with the offer's driver and the offer's price, and
\* leaves the offer accepted.
C4_AcceptStampsOrder ==
  [][ ( /\ CallReturns("acceptOffer")
        /\ last'.success
        /\ last'.args[2] \in DOMAIN OrdersBefore
        /\ OrdersBefore[last'.args[2]].status = "pending" )
      => LET offer == OffersBefore[last'.args[1]]
             order == orders'[last'.args[2]]
         IN  /\ order.status = "accepted"
             /\ order.acceptedDriverId = offer.driverId
             /\ order.finalPrice = offer.offeredPrice
             /\ driverOffers'[last'.args[1]].status = "accepted" ]_vars

\* C4 witness: order 1, priced 500, was accepted at D2's 550 while D1's offer of 600
\* is on the same order.
C4_Witness ==
  /\ Quiet
  /\ last.op = "acceptOffer" /\ last.success
  /\ 1 \in DOMAIN orders
  /\ orders[1].suggestedPrice = 50000
  /\ orders[1].status = "accepted"
  /\ orders[1].finalPrice = 55000
  /\ orders[1].acceptedDriverId = DriverIdOf("d2")
  /\ \E i \in DOMAIN driverOffers :
       /\ driverOffers[i].orderId = 1
       /\ driverOffers[i].driverId = DriverIdOf("d1")
       /\ driverOffers[i].offeredPrice = 60000
       /\ driverOffers[i].status = "pending"

\* C5 (BiddingSpec): an acceptOffer call changes no offer other than the one it names,
\* on the order of the accepted offer or on another order.
C5_AcceptLeavesOtherOffers ==
  [][ CallReturns("acceptOffer")
      => /\ DOMAIN driverOffers' = DOMAIN OffersBefore
         /\ \A i \in DOMAIN OffersBefore :
              i # last'.args[1] => driverOffers'[i] = OffersBefore[i] ]_vars

\* C5 witness: an offer was accepted; a sibling offer on its order and an offer on the
\* other order are still pending.
C5_Witness ==
  /\ Quiet
  /\ last.op = "acceptOffer" /\ last.success
  /\ driverOffers[last.args[1]].status = "accepted"
  /\ \E i, j \in DOMAIN driverOffers :
       /\ i # last.args[1]
       /\ driverOffers[i].orderId = driverOffers[last.args[1]].orderId
       /\ driverOffers[i].status = "pending"
       /\ driverOffers[j].orderId # driverOffers[last.args[1]].orderId
       /\ driverOffers[j].status = "pending"

\* C6 (BiddingSpec): there is at most one offer per (order, driver) pair, and
\* a makeOffer call by a driver who has an offer on the order, whatever its status,
\* returns the duplicate-offer failure and leaves the offer table as it was.
C6_OneOfferPerDriverAndOrder ==
  [][ /\ \A i, j \in DOMAIN driverOffers' :
           ( /\ driverOffers'[i].orderId = driverOffers'[j].orderId
             /\ driverOffers'[i].driverId = driverOffers'[j].driverId ) => i = j
      /\ ( /\ CallReturns("makeOffer")
           /\ DriversByTelegramId(drivers, last'.args[1]) # {}
           /\ OffersBy(OffersBefore, last'.args[2], DriverIdOf(last'.args[1])) # {} )
         => /\ ~last'.success
            /\ last'.result = "duplicate_offer"
            /\ driverOffers' = OffersBefore ]_vars

\* C6 amended (BiddingSpec): there is at most one offer per (order, driver) pair, and a
\* makeOffer call by a driver who has an offer on the order, whatever its status, fails
\* and leaves the offer table as it was; the failure is the duplicate-offer result when
\* the stored verified flag of the driver is true and the not-verified result when the
\* flag is false.
C6_DuplicateOfferOfVerifiedDriver ==
  [][ /\ \A i, j \in DOMAIN driverOffers' :
           ( /\ driverOffers'[i].orderId = driverOffers'[j].orderId
             /\ driverOffers'[i].driverId = driverOffers'[j].driverId ) => i = j
      /\ ( /\ CallReturns("makeOffer")
           /\ DriversByTelegramId(drivers, last'.args[1]) # {}
           /\ OffersBy(OffersBefore, last'.args[2], DriverIdOf(last'.args[1])) # {} )
         => /\ ~last'.success
            /\ last'.result = IF DriversBefore[DriverIdOf(last'.args[1])].isVerified
                              THEN "duplicate_offer" ELSE "not_verified"
            /\ driverOffers' = OffersBefore ]_vars

\* C6 witness: a driver whose stored flag is true and whose offer on the order has been
\* accepted offered again and was refused as a duplicate.
C6_Witness ==
  /\ Quiet
  /\ last.op = "makeOffer" /\ last.result = "duplicate_offer"
  /\ drivers[DriverIdOf(last.args[1])].isVerified
  /\ \E i \in OffersBy(driverOffers, last.args[2], DriverIdOf(last.args[1])) :
       driverOffers[i].status = "accepted"

\* C7 (OfferRaceSpec): concurrent makeOffer calls never leave two offers of one driver
\* on one order.
C7_NoDuplicateOfferUnderRace ==
  \A o \in OrderIdInputs : \A d \in DOMAIN drivers :
    Cardinality({i \in DOMAIN driverOffers :
                   driverOffers[i].driverId = d /\ driverOffers[i].orderId = o}) <= 1

\* C8 (Spec): a makeOffer call by a registered driver whose stored flag is false returns
\* the not-verified failure, which is not the driver-not-found failure, and leaves the
\* offer table as it was.
C8_UnverifiedDriverCannotOffer ==
  [][ ( /\ CallReturns("makeOffer")
        /\ DriversByTelegramId(DriversBefore, last'.args[1]) # {}
        /\ ~DriversBefore[Min(DriversByTelegramId(DriversBefore, last'.args[1]))].isVerified )
      => /\ ~last'.success
         /\ last'.result = "not_verified"
         /\ last'.result # "driver_not_found"
         /\ driverOffers' = OffersBefore ]_vars

\* C8 witness: the registered, unverified d3 was refused, and a caller who never
\* registered gets the other failure.
C8_Witness ==
  /\ Quiet
  /\ last.op = "makeOffer" /\ last.args[1] = "d3"
  /\ last.result = "not_verified" /\ ~last.success
  /\ DriversByTelegramId(drivers, "d3") # {}
  /\ DriversByTelegramId(drivers, "d4") = {}

\* C9 (LedgerSpec): right after a processDocumentVerification call on an existing
\* document, the stored flag of the document's driver is true exactly if the driver has
\* an approved license and an approved vehicle_registration.
C9_FlagMatchesRequiredDocuments ==
  ( /\ Quiet
    /\ last.op = "processDocumentVerification"
    /\ last.args[1] \in DOMAIN driverDocuments )
  => LET d == driverDocuments[last.args[1]].driverId
     IN  drivers[d].isVerified <=>
           ( /\ HasApproved(driverDocuments, d, "license")
             /\ HasApproved(driverDocuments, d, "vehicle_registration") )

\* C9 witness: the insurance of a driver was rejected and the driver, with both required
\* documents approved, is verified.
C9_Witness ==
  /\ Quiet
  /\ last.op = "processDocumentVerification" /\ last.args[2] = FALSE
  /\ last.args[1] \in DOMAIN driverDocuments
  /\ driverDocuments[last.args[1]].documentType = "insurance"
  /\ driverDocuments[last.args[1]].status = "rejected"
  /\ drivers[driverDocuments[last.args[1]].driverId].isVerified

\* C10 (LedgerSpec): right after an uploadDocument call that reset an existing license or
\* vehicle_registration document to pending, the stored flag of its driver is false.
C10_ResubmissionClearsFlag ==
  ( /\ Quiet
    /\ last.op = "uploadDocument" /\ last.result = "updated"
    /\ driverDocuments[last.ret].documentType \in {"license", "vehicle_registration"} )
  => ~drivers[driverDocuments[last.ret].driverId].isVerified

\* C11 (GateSpec): right after a makeOffer call that returned success, the calling driver
\* has an approved license and an approved vehicle_registration.
C11_OfferOnlyWithApprovedDocuments ==
  ( /\ Quiet
    /\ last.op = "makeOffer" /\ last.success )
  => /\ HasApproved(driverDocuments, DriverIdOf(last.args[1]), "license")
     /\ HasApproved(driverDocuments, DriverIdOf(last.args[1]), "vehicle_registration")

\* C11 witness: a driver whose license is pending again placed an offer.
C11_StaleFlagOffer ==
  /\ Quiet
  /\ last.op = "makeOffer" /\ last.success
  /\ \E i \in DOMAIN driverDocuments :
       /\ driverDocuments[i].driverId = DriverIdOf(last.args[1])
       /\ driverDocuments[i].documentType = "license"
       /\ driverDocuments[i].status = "pending"

\* C12 (GateSpec): the aggregate a checkVerificationStatus call returns for a registered
\* driver is true exactly if the driver has an approved license and an approved
\* vehicle_registration.
C12_AggregateMatchesDocuments ==
  ( /\ Quiet
    /\ last.op = "checkVerificationStatus" /\ last.success )
  => ( last.result = "verified" <=>
         ( /\ HasApproved(driverDocuments, DriverIdOf(last.args[1]), "license")
           /\ HasApproved(driverDocuments, DriverIdOf(last.args[1]), "vehicle_registration") ) )

\* C12 witness: the stored flag is still true after a required document was resubmitted,
\* and the call reported the driver as not verified.
C12_Witness ==
  /\ Quiet
  /\ last.op = "checkVerificationStatus" /\ last.success
  /\ last.result = "unverified"
  /\ drivers[DriverIdOf(last.args[1])].isVerified
  /\ HasApproved(driverDocuments, DriverIdOf(last.args[1]), "vehicle_registration")
  /\ ~HasApproved(driverDocuments, DriverIdOf(last.args[1]), "license")

\* the documents a driver has of a category
DocsOf(docs, driverId, type) ==
  {i \in DOMAIN docs : docs[i].driverId = driverId /\ docs[i].documentType = type}

\* C13 (GateSpec): there is at most one document per (driver, category); an uploadDocument
\* call by a driver who has a document of the category keeps its id, stores the new
\* payload, sets it pending, clears its reason and inserts no row; a call by an
\* unregistered telegram id fails and leaves the documents as they were.
C13_OneDocumentPerCategory ==
  [][ /\ \A d \in DOMAIN drivers' : \A t \in DocTypes :
           Cardinality(DocsOf(driverDocuments', d, t)) <= 1
      /\ ( CallReturns("uploadDocument") /\ DriversByTelegramId(drivers, last'.args[1]) = {} )
         => ( ~last'.success /\ driverDocuments' = DocumentsBefore )
      /\ ( /\ CallReturns("uploadDocument")
           /\ DriversByTelegramId(drivers, last'.args[1]) # {}
           /\ DocsOf(DocumentsBefore, DriverIdOf(last'.args[1]), last'.args[2]) # {} )
         => LET e == Min(DocsOf(DocumentsBefore, DriverIdOf(last'.args[1]), last'.args[2]))
            IN  /\ last'.success /\ last'.ret = e
                /\ DOMAIN driverDocuments' = DOMAIN DocumentsBefore
                /\ driverDocuments'[e].driverId = DocumentsBefore[e].driverId
                /\ driverDocuments'[e].documentType = DocumentsBefore[e].documentType
                /\ driverDocuments'[e].documentData = last'.args[3]
                /\ driverDocuments'[e].status = "pending"
                /\ driverDocuments'[e].rejectionReason = NullText
                /\ \A i \in DOMAIN DocumentsBefore :
                     i # e => driverDocuments'[i] = DocumentsBefore[i] ]_vars

\* C13 witness: a document that had been rejected with a reason was resubmitted with
\* the other payload; it is the only document of its driver and category.
C13_Witness ==
  /\ Quiet
  /\ last.op = "uploadDocument" /\ last.result = "updated"
  /\ last.args[3] = "rescan"
  /\ driverDocuments[last.ret].documentData = "rescan"
  /\ driverDocuments[last.ret].status = "pending"
  /\ Rows(driverDocuments) >= 2

\* C14 (LedgerSpec): a processDocumentVerification call that names the id of no document
\* returns a failure.
C14_AdjudicateUnknownDocumentFails ==
  ( /\ Quiet
    /\ last.op = "processDocumentVerification"
    /\ last.args[1] \notin DOMAIN driverDocuments )
  => ~last.success

\* the id a caller has in a role, NULL when the caller is not registered in it
CallerId(telegramId, userType) ==
  LET user == IF userType = "passenger" THEN PassengersByTelegramId(passengers, telegramId)
              ELSE DriversByTelegramId(drivers, telegramId)
  IN  IF user = {} THEN NULL ELSE Min(user)

\* the caller is the party of the order in the role
IsPartyOf(telegramId, orderId, userType) ==
  /\ orderId \in DOMAIN orders
  /\ CallerId(telegramId, userType) # NULL
  /\ CallerId(telegramId, userType) =
       IF userType = "passenger" THEN orders[orderId].passengerId
       ELSE orders[orderId].acceptedDriverId

\* the ratings a user has received in a role
Received(rts, userId, userType) ==
  {i \in DOMAIN rts : rts[i].toUserId = userId /\ rts[i].toUserType = userType}

RECURSIVE TotalOf(_, _)
TotalOf(rts, S) ==
  IF S = {} THEN 0
  ELSE LET i == CHOOSE x \in S : TRUE IN rts[i].rating + TotalOf(rts, S \ {i})

\* r, in hundredths, is the mean of the ratings of S rounded to two decimals
IsRoundedMean(r, rts, S) ==
  LET n == Cardinality(S)
      d == r * n - 100 * TotalOf(rts, S)
  IN  2 * d <= n /\ -2 * d <= n

\* the profile of a user in a role
ProfileOf(userId, userType) ==
  IF userType = "driver" THEN drivers[userId] ELSE passengers[userId]

\* C15 (RatingSpec): there is at most one rating per (orderId, fromUserId) pair; a rateRide
\* call by a party of the order who has rated it in the same role returns the
\* already-rated failure, inserts no row and changes no profile.
C15_OneRatingPerOrderAndRater ==
  [][ /\ \A o \in DOMAIN orders : \A u \in 1..3 :
           Cardinality({i \in DOMAIN ratings' :
                          ratings'[i].orderId = o /\ ratings'[i].fromUserId = u}) <= 1
      /\ ( /\ CallReturns("rateRide")
           /\ IsPartyOf(last'.args[1], last'.args[2], last'.args[3])
           /\ \E i \in DOMAIN RatingsBefore :
                /\ RatingsBefore[i].orderId = last'.args[2]
                /\ RatingsBefore[i].fromUserId = CallerId(last'.args[1], last'.args[3])
                /\ RatingsBefore[i].fromUserType = last'.args[3] )
         => /\ ~last'.success
            /\ last'.result = "already_rated"
            /\ ratings' = RatingsBefore
            /\ drivers' = DriversBefore
            /\ passengers' = PassengersBefore ]_vars

\* C15 witness: the passenger of order 1 rated it, rated it again and was refused.
C15_Witness ==
  /\ Quiet
  /\ last.op = "rateRide" /\ last.result = "already_rated"
  /\ last.args[1] = "p1" /\ last.args[2] = 1 /\ last.args[3] = "passenger"
  /\ \E i \in DOMAIN ratings :
       /\ ratings[i].orderId = 1 /\ ratings[i].fromUserId = 1
       /\ ratings[i].fromUserType = "passenger"
  /\ Rows(ratings) = 1

\* C17 (AuthSpec): a rateRide call by a caller who is not the party of the order in the
\* role given (another registered user, an unregistered telegram id, or any caller on
\* a missing order) fails, inserts no rating and changes no profile.
C17_OnlyPartiesRate ==
  [][ ( /\ CallReturns("rateRide")
        /\ ~IsPartyOf(last'.args[1], last'.args[2], last'.args[3]) )
      => /\ ~last'.success
         /\ ratings' = RatingsBefore
         /\ drivers' = DriversBefore
         /\ passengers' = PassengersBefore ]_vars

\* C17 witness: p2, a registered passenger, was refused on order 1, which p1 placed,
\* after the parties of other orders had rated.
C17_Witness ==
  /\ Quiet
  /\ last.op = "rateRide" /\ ~last.success
  /\ last.args[1] = "p2" /\ last.args[2] = 1 /\ last.args[3] = "passenger"
  /\ last.result = "not_passenger_of_order"
  /\ PassengersByTelegramId(passengers, "p2") # {}
  /\ Rows(ratings) >= 1

\* C18 (RatingSpec): right after a rateRide call that returned success, the stored rating
\* of the user rated, the target of the rating the call inserted, is the mean of the
\* ratings the user has received in that role, rounded to two decimals, and the stored
\* ride count is their number.
C18_StoredRatingIsRoundedMean ==
  ( /\ Quiet
    /\ last.op = "rateRide" /\ last.success )
  => LET row == ratings[Max(DOMAIN ratings)]
         S == Received(ratings, row.toUserId, row.toUserType)
         profile == ProfileOf(row.toUserId, row.toUserType)
     IN  /\ IsRoundedMean(profile.rating, ratings, S)
         /\ profile.totalRides = Cardinality(S)

\* C18 witness: a user has received 5, 4 and 3 and has the stored rating 4.00 with 3 rides.
C18_Witness ==
  /\ Quiet
  /\ last.op = "rateRide" /\ last.success
  /\ LET row == ratings[Max(DOMAIN ratings)]
         S == Received(ratings, row.toUserId, row.toUserType)
     IN  /\ Cardinality(S) = 3
         /\ {ratings[i].rating : i \in S} = {3, 4, 5}
         /\ ProfileOf(row.toUserId, row.toUserType).rating = 400
         /\ ProfileOf(row.toUserId, row.toUserType).totalRides = 3

\* C19 (RatingSpec): what a getUserRating call reports is the rating and the ride count
\* stored on the profile: 5.00, 0 and no comment for a user who has received no rating
\* in the role, and otherwise the two-decimal mean and the number of the ratings received.
C19_ReportMatchesProfile ==
  ( Quiet /\ last.op = "getUserRating" )
  => LET S == Received(ratings, last.args[1], last.args[2])
         profile == ProfileOf(last.args[1], last.args[2])
     IN  /\ last.success
         /\ last.ret.rating = profile.rating
         /\ last.ret.totalRatings = profile.totalRides
         /\ S = {} => /\ last.ret.rating = 500
                      /\ last.ret.totalRatings = 0
                      /\ last.ret.recentComments = <<>>
         /\ S # {} => /\ IsRoundedMean(last.ret.rating, ratings, S)
                      /\ last.ret.totalRatings = Cardinality(S)

\* C19 witness: driver 1 has received 5 and 4 and passenger 1 has received 3; the report
\* for the driver is 4.50 with 2 ratings and one comment.
C19_Witness ==
  /\ Quiet
  /\ last.op = "getUserRating" /\ last.args = <<1, "driver">>
  /\ last.ret.rating = 450 /\ last.ret.totalRatings = 2
  /\ last.ret.recentComments = <<"thanks">>
  /\ Cardinality(Received(ratings, 1, "passenger")) = 1
  /\ passengers[1].rating = 300

\* C16 (RateRaceSpec): concurrent rateRide calls never leave two ratings of one
\* participant on one order.
C16_NoDuplicateRatingUnderRace ==
  \A i \in DOMAIN ratings : \A j \in DOMAIN ratings :
    ( /\ ratings[i].orderId = ratings[j].orderId
      /\ ratings[i].fromUserId = ratings[j].fromUserId
      /\ ratings[i].fromUserType = ratings[j].fromUserType )
    => i = j

\* C20 (RegistrationSpec): a registerPassenger or registerDriver call with a registered
\* telegram id returns success with the id of the existing profile and leaves both
\* profile tables as they were; a call with a new telegram id adds one profile with
\* rating 5.00, no rides and, for a driver, isVerified false, and returns its id.
C20_RegistrationIsIdempotent ==
  [][ /\ CallReturns("registerPassenger") =>
           LET existing == {i \in DOMAIN PassengersBefore :
                              PassengersBefore[i].telegramId = last'.args[1]}
           IN  /\ last'.success
               /\ drivers' = DriversBefore
               /\ existing # {} => /\ passengers' = PassengersBefore
                                   /\ last'.ret \in existing
               /\ existing = {} => /\ AddsRow(passengers', PassengersBefore, last'.ret)
                                   /\ passengers'[last'.ret].telegramId = last'.args[1]
                                   /\ passengers'[last'.ret].firstName = last'.args[2]
                                   /\ passengers'[last'.ret].phoneNumber = last'.args[3]
                                   /\ passengers'[last'.ret].rating = 500
                                   /\ passengers'[last'.ret].totalRides = 0
      /\ CallReturns("registerDriver") =>
           LET existing == {i \in DOMAIN DriversBefore :
                              DriversBefore[i].telegramId = last'.args[1]}
           IN  /\ last'.success
               /\ passengers' = PassengersBefore
               /\ existing # {} => /\ drivers' = DriversBefore
                                   /\ last'.ret \in existing
               /\ existing = {} => /\ AddsRow(drivers', DriversBefore, last'.ret)
                                   /\ drivers'[last'.ret].telegramId = last'.args[1]
                                   /\ drivers'[last'.ret].firstName = last'.args[2]
                                   /\ drivers'[last'.ret].phoneNumber = last'.args[3]
                                   /\ drivers'[last'.ret].carModel = last'.args[4]
                                   /\ drivers'[last'.ret].rating = 500
                                   /\ drivers'[last'.ret].totalRides = 0
                                   /\ ~drivers'[last'.ret].isVerified
      /\ \A i \in DOMAIN passengers' : \A j \in DOMAIN passengers' :
           passengers'[i].telegramId = passengers'[j].telegramId => i = j
      /\ \A i \in DOMAIN drivers' : \A j \in DOMAIN drivers' :
           drivers'[i].telegramId = drivers'[j].telegramId => i = j ]_vars

\* C20 witness: p1, registered as Ivan, registered again as Oleg and is still Ivan, and
\* the verified driver d1 is still verified beside the new driver d4.
C20_Witness ==
  /\ Quiet
  /\ last.op = "registerPassenger" /\ last.result = "welcome_back"
  /\ last.args[1] = "p1" /\ last.args[2] = "Oleg"
  /\ passengers[last.ret].telegramId = "p1"
  /\ passengers[last.ret].firstName = "Ivan"
  /\ drivers[1].isVerified
  /\ \E i \in DOMAIN drivers : drivers[i].telegramId = "d4" /\ ~drivers[i].isVerified

\* C21 (Spec): a createOrder call inserts an order only for a registered passenger, and
\* a call that returns success has appended one order, pending, owned by that
\* passenger, with no accepted driver and no final price; a call by an unregistered
\* telegram id fails and leaves the orders as they were.
C21_CreateOrderNeedsPassenger ==
  [][ CallReturns("createOrder") =>
        LET owner == {i \in DOMAIN passengers : passengers[i].telegramId = last'.args[1]}
        IN  /\ owner = {} => ( ~last'.success /\ orders' = OrdersBefore )
            /\ ~last'.success => orders' = OrdersBefore
            /\ last'.success =>
                 /\ owner # {}
                 /\ AddsRow(orders', OrdersBefore, last'.ret)
                 /\ orders'[last'.ret].status = "pending"
                 /\ orders'[last'.ret].passengerId \in owner
                 /\ orders'[last'.ret].acceptedDriverId = NULL
                 /\ orders'[last'.ret].finalPrice = NULL ]_vars

\* C21 witness: p2, who never registered, was refused while the registered p1 has a
\* pending order.
C21_Witness ==
  /\ Quiet
  /\ last.op = "createOrder" /\ last.args[1] = "p2"
  /\ ~last.success /\ last.result = "passenger_not_found"
  /\ \E i \in DOMAIN orders :
       /\ orders[i].status = "pending"
       /\ passengers[orders[i].passengerId].telegramId = "p1"

\* C30 (Spec): an acceptOffer call that names the id of no offer returns the not-found
\* failure and leaves the orders and the offers as they were.
C30_AcceptUnknownOfferFails ==
  [][ ( /\ CallReturns("acceptOffer")
        /\ last'.args[1] \notin DOMAIN OffersBefore )
      => /\ ~last'.success
         /\ last'.result = "offer_not_found"
         /\ orders' = OrdersBefore
         /\ driverOffers' = OffersBefore ]_vars

\* C30 witness: acceptOffer named offer 2, which does not exist, and order 1, which is
\* pending and has an offer.
C30_Witness ==
  /\ Quiet
  /\ last.op = "acceptOffer" /\ last.result = "offer_not_found"
  /\ last.args = <<2, 1>>
  /\ DOMAIN driverOffers = {1}
  /\ DOMAIN orders = {1}
  /\ orders[1].status = "pending"
  /\ driverOffers[1].orderId = 1

\* C22 (ListingSpec): what a getAvailableOrders call returns is the pending orders, all
\* of them and no other order, the newest first.
C22_ListingIsThePendingOrders ==
  ( Quiet /\ last.op = "getAvailableOrders" )
  => /\ {last.ret[k] : k \in DOMAIN last.ret} =
          {i \in DOMAIN orders : orders[i].status = "pending"}
     /\ \A k \in DOMAIN last.ret : \A l \in DOMAIN last.ret :
          k < l => last.ret[k] > last.ret[l]

\* the caller of the listing is a registered driver, verified and online
IsEligibleDriver(telegramId) ==
  \E i \in DOMAIN drivers :
    drivers[i].telegramId = telegramId /\ drivers[i].isVerified /\ drivers[i].isOnline

\* C22 amended (ListingSpec): a getAvailableOrders call by a registered driver who is
\* verified and online returns the pending orders, all of them and no other order, the
\* newest first; a call by any other caller fails and returns no order.
C22_ListingForEligibleDriver ==
  ( Quiet /\ last.op = "getAvailableOrders" )
  => IF IsEligibleDriver(last.args[1])
     THEN /\ last.success
          /\ {last.ret[k] : k \in DOMAIN last.ret} =
               {i \in DOMAIN orders : orders[i].status = "pending"}
          /\ \A k \in DOMAIN last.ret : \A l \in DOMAIN last.ret :
               k < l => last.ret[k] > last.ret[l]
     ELSE ~last.success /\ last.ret = <<>>

\* C22 witness: both orders are pending and the online driver d1 got order 2 before
\* order 1.
C22_Witness ==
  /\ Quiet
  /\ last.op = "getAvailableOrders" /\ last.success
  /\ last.args[1] = "d1"
  /\ last.ret = <<2, 1>>
  /\ orders[1].status = "pending" /\ orders[2].status = "pending"

\* the call that returns is a respondToCounterOffer call by a registered driver that
\* names an existing negotiation
RespondedBy(l, drv, negs) ==
  /\ l.op = "respondToCounterOffer"
  /\ \E i \in DOMAIN drv : drv[i].telegramId = l.args[1]
  /\ l.args[2] \in DOMAIN negs

\* the id of the driver who made the call
ResponderId(l, drv) == CHOOSE i \in DOMAIN drv : drv[i].telegramId = l.args[1]

\* C23 (NegotiationSpec): a respondToCounterOffer call by a driver with accept = false and
\* a counterPrice appends one pending negotiation for the order of the negotiation named,
\* from that driver to its sender, at the counterPrice, and leaves the negotiation named
\* as it was.
C23_CounterAppendsReverseRow ==
  [][ ( /\ CallReturns("respondToCounterOffer")
        /\ RespondedBy(last', drivers, NegotiationsBefore)
        /\ ~last'.args[3]
        /\ last'.args[4] # NULL )
      => LET n == NegotiationsBefore[last'.args[2]]
             k == Max(DOMAIN priceNegotiations')
         IN  /\ AddsRow(priceNegotiations', NegotiationsBefore, k)
             /\ priceNegotiations'[k].orderId = n.orderId
             /\ priceNegotiations'[k].fromUserId = ResponderId(last', drivers)
             /\ priceNegotiations'[k].fromUserType = "driver"
             /\ priceNegotiations'[k].toUserId = n.fromUserId
             /\ priceNegotiations'[k].toUserType = n.fromUserType
             /\ 10 * priceNegotiations'[k].proposedPrice = last'.args[4]
             /\ priceNegotiations'[k].status = "pending" ]_vars

\* C24 (NegotiationSpec): a respondToCounterOffer call changes no order and no offer.
C24_RespondLeavesOrdersAndOffers ==
  [][ CallReturns("respondToCounterOffer")
      => orders' = OrdersBefore /\ driverOffers' = OffersBefore ]_vars

\* C24 witness: the driver accepted the negotiation on order 1 and order 1 is pending,
\* with both its offers pending.
C24_Witness ==
  /\ Quiet
  /\ last.op = "respondToCounterOffer" /\ last.result = "negotiation_accepted"
  /\ last.args[2] \in DOMAIN priceNegotiations
  /\ priceNegotiations[last.args[2]].status = "accepted"
  /\ priceNegotiations[last.args[2]].orderId = 1
  /\ orders[1].status = "pending"
  /\ \A i \in DOMAIN driverOffers : driverOffers[i].status = "pending"

\* C25 (NegotiationSpec): a respondToCounterOffer call by a driver with accept = false marks
\* the negotiation rejected when no counterPrice is supplied, and when one is supplied,
\* whatever its value, leaves the negotiation as it was and appends a counter row.
C25_RejectedIffNoCounterPrice ==
  [][ ( /\ CallReturns("respondToCounterOffer")
        /\ RespondedBy(last', drivers, NegotiationsBefore)
        /\ ~last'.args[3] )
      => IF last'.args[4] = NULL
         THEN /\ priceNegotiations'[last'.args[2]].status = "rejected"
              /\ DOMAIN priceNegotiations' = DOMAIN NegotiationsBefore
         ELSE /\ priceNegotiations'[last'.args[2]] = NegotiationsBefore[last'.args[2]]
              /\ Rows(priceNegotiations') = Rows(NegotiationsBefore) + 1 ]_vars

\* C26 (NegotiationSpec): a negotiation that is accepted or rejected never changes again,
\* and a pending negotiation changes only its status, to accepted or to rejected.
C26_ResolvedNegotiationIsImmutable ==
  [][ \A i \in DOMAIN priceNegotiations :
        /\ priceNegotiations[i].status \in {"accepted", "rejected"}
             => priceNegotiations'[i] = priceNegotiations[i]
        /\ priceNegotiations[i].status = "pending"
             => \E st \in {"pending", "accepted", "rejected"} :
                  priceNegotiations'[i] = [priceNegotiations[i] EXCEPT !.status = st] ]_vars

\* C27 (NegotiationSpec): a respondToCounterOffer call that names the id of no negotiation,
\* or whose caller is not a registered driver, fails and changes no negotiation.
C27_RespondToUnknownFails ==
  [][ ( /\ CallReturns("respondToCounterOffer")
        /\ \/ last'.args[2] \notin DOMAIN NegotiationsBefore
           \/ \A i \in DOMAIN drivers : drivers[i].telegramId # last'.args[1] )
      => /\ ~last'.success
         /\ priceNegotiations' = NegotiationsBefore ]_vars

\* C28 (NegotiationSpec): a respondToCounterOffer call by a registered driver to whom the
\* negotiation is not addressed fails and changes no negotiation.
C28_OnlyTheAddresseeResponds ==
  [][ ( /\ CallReturns("respondToCounterOffer")
        /\ RespondedBy(last', drivers, NegotiationsBefore)
        /\ ~ ( /\ NegotiationsBefore[last'.args[2]].toUserType = "driver"
               /\ NegotiationsBefore[last'.args[2]].toUserId = ResponderId(last', drivers) ) )
      => /\ ~last'.success
         /\ priceNegotiations' = NegotiationsBefore ]_vars

\* C29 as claimed (NegotiationSpec): a makeCounterOffer call succeeds exactly if its
\* caller is a registered passenger; it then appends one pending negotiation from that
\* passenger to the driver named at the price proposed and changes no other
\* negotiation, no order and no offer; otherwise it appends nothing.
C29_CounterOfferNeedsPassengerOnly ==
  [][ CallReturns("makeCounterOffer") =>
        LET sender == {i \in DOMAIN passengers : passengers[i].telegramId = last'.args[2]}
            k == Max(DOMAIN priceNegotiations')
        IN  /\ last'.success <=> sender # {}
            /\ orders' = OrdersBefore /\ driverOffers' = OffersBefore
            /\ sender = {} => priceNegotiations' = NegotiationsBefore
            /\ sender # {} =>
                 /\ DOMAIN priceNegotiations' # {}
                 /\ AddsRow(priceNegotiations', NegotiationsBefore, k)
                 /\ priceNegotiations'[k].orderId = last'.args[1]
                 /\ priceNegotiations'[k].fromUserId \in sender
                 /\ priceNegotiations'[k].fromUserType = "passenger"
                 /\ priceNegotiations'[k].toUserId = last'.args[3]
                 /\ priceNegotiations'[k].toUserType = "driver"
                 /\ 10 * priceNegotiations'[k].proposedPrice = last'.args[4]
                 /\ priceNegotiations'[k].status = "pending" ]_vars

\* a price, in thousandths, whose magnitude is below 999999.995: rounded to two decimals
\* it has at most six digits before the point
IsStorablePrice(milli) == -999999995 < milli /\ milli < 999999995

\* C29 amended (NegotiationSpec): a makeCounterOffer call succeeds exactly if its caller
\* is a registered passenger and the price proposed is below 999999.995 in magnitude;
\* it then appends one pending negotiation from that passenger to the driver named at
\* the price proposed, rounded to two decimals, and changes no other negotiation, no
\* order and no offer; otherwise it fails and appends nothing.
C29_CounterOfferNeedsPassengerAndPrice ==
  [][ CallReturns("makeCounterOffer") =>
        LET sender == {i \in DOMAIN passengers : passengers[i].telegramId = last'.args[2]}
            k == Max(DOMAIN priceNegotiations')
        IN  /\ last'.success <=> ( sender # {} /\ IsStorablePrice(last'.args[4]) )
            /\ orders' = OrdersBefore /\ driverOffers' = OffersBefore
            /\ ~last'.success => priceNegotiations' = NegotiationsBefore
            /\ last'.success =>
                 /\ DOMAIN priceNegotiations' # {}
                 /\ AddsRow(priceNegotiations', NegotiationsBefore, k)
                 /\ priceNegotiations'[k].orderId = last'.args[1]
                 /\ priceNegotiations'[k].fromUserId \in sender
                 /\ priceNegotiations'[k].fromUserType = "passenger"
                 /\ priceNegotiations'[k].toUserId = last'.args[3]
                 /\ priceNegotiations'[k].toUserType = "driver"
                 /\ 10 * priceNegotiations'[k].proposedPrice - last'.args[4] \in -5..5
                 /\ priceNegotiations'[k].status = "pending" ]_vars

\* C29 witness: order 1 is accepted and the passenger's counter offer of 450 on it was
\* taken; the counter offer of 1000000 the passenger made next was refused.
C29_Witness ==
  /\ Quiet
  /\ last.op = "makeCounterOffer" /\ ~last.success /\ last.result = "error"
  /\ last.args[1] = 1 /\ last.args[2] = "p1" /\ last.args[4] = 1000000000
  /\ orders[1].status = "accepted"
  /\ DOMAIN priceNegotiations = {1}
  /\ priceNegotiations[1].orderId = 1
  /\ priceNegotiations[1].proposedPrice = 45000
  /\ priceNegotiations[1].status = "pending"
  /\ priceNegotiations[1].fromUserType = "passenger"

\* C32 (RatingSpec): a rateRide call returns success and inserts a rating only for an
\* order whose status is completed.
C32_RatingOnlyAfterCompletion ==
  [][ ( /\ CallReturns("rateRide")
        /\ last'.success \/ ratings' # RatingsBefore )
      => /\ last'.args[2] \in DOMAIN orders
         /\ orders[last'.args[2]].status = "completed" ]_vars

\* C36 (ListingSpec): between calls, the accepted driver of an order is the driver of an
\* accepted offer that belongs to that order.
C36_AcceptedDriverHasOfferOnOrder ==
  Quiet =>
    \A o \in DOMAIN orders :
      orders[o].acceptedDriverId # NULL
      => \E i \in DOMAIN driverOffers :
           /\ driverOffers[i].orderId = o
           /\ driverOffers[i].driverId = orders[o].acceptedDriverId
           /\ driverOffers[i].status = "accepted"

\* C37 (Spec): every offer names an existing order, and a makeOffer call adds an offer
\* only on an order that exists and is pending.
C37_OfferOnlyOnPendingOrder ==
  [][ /\ \A i \in DOMAIN driverOffers' : driverOffers'[i].orderId \in DOMAIN orders'
      /\ ( CallReturns("makeOffer") /\ DOMAIN driverOffers' # DOMAIN OffersBefore )
         => /\ last'.args[2] \in DOMAIN orders
            /\ orders[last'.args[2]].status = "pending" ]_vars

\* C38 (RatingSpec): a rateRide call by a party of an order who has not rated it in
\* that role, and whose counterpart is recorded on the order, returns success, whether
\* or not the other party has rated the order.
C38_BothPartiesRateOnce ==
  [][ ( /\ CallReturns("rateRide")
        /\ IsPartyOf(last'.args[1], last'.args[2], last'.args[3])
        /\ orders[last'.args[2]].acceptedDriverId # NULL
        /\ ~\E i \in DOMAIN RatingsBefore :
              /\ RatingsBefore[i].orderId = last'.args[2]
              /\ RatingsBefore[i].fromUserType = last'.args[3]
              /\ RatingsBefore[i].fromUserId = CallerId(last'.args[1], last'.args[3]) )
      => /\ last'.success
         /\ Rows(ratings') = Rows(RatingsBefore) + 1 ]_vars

\* C39 (AuthSpec): the rating a rateRide call inserts is directed at the counterpart
\* the order records: the accepted driver for a rating by the passenger, the passenger
\* for a rating by the driver; no rating has a missing target, and a rateRide call by
\* the passenger of an order without an accepted driver fails, inserts nothing and
\* changes no profile.
C39_RatingTargetsCounterpart ==
  [][ CallReturns("rateRide") =>
        LET o == last'.args[2]
            t == last'.args[3]
            k == Max(DOMAIN ratings')
        IN  /\ \A i \in DOMAIN ratings' : ratings'[i].toUserId # NULL
            /\ DOMAIN ratings' # DOMAIN RatingsBefore =>
                 /\ ratings'[k].orderId = o
                 /\ ratings'[k].fromUserType = t
                 /\ t = "passenger" => /\ ratings'[k].toUserType = "driver"
                                       /\ ratings'[k].toUserId = orders[o].acceptedDriverId
                 /\ t = "driver" => /\ ratings'[k].toUserType = "passenger"
                                    /\ ratings'[k].toUserId = orders[o].passengerId
            /\ ( /\ t = "passenger"
                 /\ o \in DOMAIN orders
                 /\ orders[o].acceptedDriverId = NULL )
               => /\ ~last'.success
                  /\ ratings' = RatingsBefore
                  /\ drivers' = DriversBefore
                  /\ passengers' = PassengersBefore ]_vars

\* C39 witness: p2, the passenger of order 4, which no driver has accepted, was refused
\* after a passenger and a driver had rated accepted orders.
C39_Witness ==
  /\ Quiet
  /\ last.op = "rateRide" /\ ~last.success
  /\ last.args[1] = "p2" /\ last.args[2] = 4 /\ last.args[3] = "passenger"
  /\ last.result = "error"
  /\ orders[4].acceptedDriverId = NULL
  /\ \E i \in DOMAIN ratings : ratings[i].fromUserType = "passenger" /\ ratings[i].toUserType = "driver"
  /\ \E i \in DOMAIN ratings : ratings[i].fromUserType = "driver" /\ ratings[i].toUserType = "passenger"

\* C40 (ThreadSpec): every negotiation is on an existing order, and its passenger side
\* (the sender of a row sent by a passenger, the addressee of a row sent to a
\* passenger) is the passenger who placed that order.
C40_NegotiationBetweenPartiesOfOrder ==
  \A i \in DOMAIN priceNegotiations :
    LET row == priceNegotiations[i]
    IN  /\ row.orderId \in DOMAIN orders
        /\ row.fromUserType = "passenger" => row.fromUserId = orders[row.orderId].passengerId
        /\ row.toUserType = "passenger" => row.toUserId = orders[row.orderId].passengerId

\* the process is between the status write and the flag write of a rejection of a
\* document of the driver
MidRejection(p, driverId) ==
  /\ calls[p].op = "processDocumentVerification"
  /\ ~calls[p].args[2]
  /\ calls[p].pc \in {"selectDocument", "selectDocuments", "updateDriver"}
  /\ calls[p].args[1] \in DOMAIN driverDocuments
  /\ driverDocuments[calls[p].args[1]].driverId = driverId

\* C33 (VerificationRaceSpec): when two adjudications of different documents of one
\* driver have both returned, the stored flag of the driver says that the license and
\* the vehicle registration are approved; and no makeOffer call of the driver that
\* returns between the status write and the flag write of a rejection has added an
\* offer.
C33_AdjudicationIsAtomic ==
  [][ /\ ( /\ \A p \in Procs : /\ calls'[p].op = "processDocumentVerification"
                               /\ calls'[p].pc = "done"
           /\ calls'[1].args[1] # calls'[2].args[1] )
         => drivers'[1].isVerified =
              ( /\ HasApproved(driverDocuments', 1, "license")
                /\ HasApproved(driverDocuments', 1, "vehicle_registration") )
      /\ ( /\ CallReturns("makeOffer")
           /\ \E p \in Procs : MidRejection(p, CallerId(last'.args[1], "driver")) )
         => /\ ~last'.success
            /\ driverOffers' = OffersBefore ]_vars

\* C34 (SharedRaceSpec): when two rateRide calls by different raters on different
\* orders that rate the same user in the same role have both returned success, the
\* stored rating of that user is the two-decimal mean of the ratings the user has
\* received in the role and the stored ride count is their number.
C34_ConcurrentRatingsAllCounted ==
  ( /\ \A p \in Procs : /\ calls[p].op = "rateRide" /\ calls[p].pc = "done"
                        /\ calls[p].success
    /\ calls[1].args[1] # calls[2].args[1]
    /\ calls[1].args[2] # calls[2].args[2]
    /\ calls[1].args[3] = calls[2].args[3]
    /\ orders[calls[1].args[2]].acceptedDriverId = orders[calls[2].args[2]].acceptedDriverId )
  => LET target == orders[calls[1].args[2]].acceptedDriverId
         S == Received(ratings, target, "driver")
     IN  /\ Cardinality(S) = 2
         /\ IsRoundedMean(drivers[target].rating, ratings, S)
         /\ drivers[target].totalRides = Cardinality(S)

\* C35 (RegisterRaceSpec): when two registerPassenger calls, or two registerDriver
\* calls, with the same telegram id have both returned, one profile has that telegram
\* id and both calls returned success with the id of that profile.
C35_ConcurrentRegistrationIsIdempotent ==
  ( /\ \A p \in Procs : calls[p].pc = "done"
    /\ calls[1].op = calls[2].op
    /\ calls[1].op \in {"registerPassenger", "registerDriver"}
    /\ calls[1].args[1] = calls[2].args[1] )
  => LET profiles == IF calls[1].op = "registerPassenger"
                     THEN {i \in DOMAIN passengers : passengers[i].telegramId = calls[1].args[1]}
                     ELSE {i \in DOMAIN drivers : drivers[i].telegramId = calls[1].args[1]}
     IN  /\ Cardinality(profiles) = 1
         /\ \A p \in Procs : calls[p].success /\ calls[p].ret \in profiles

\* C31 as claimed (FaultSpec): a call one of whose store statements failed has returned
\* success false.
C31_AnyStoreFailureFailsTheCall ==
  \A p \in Procs :
    ( calls[p].pc = "done" /\ calls[p].fault # "none" ) => ~calls[p].success

\* C31 (FaultSpec): a call whose store statement fails returns at once and the failed
\* statement changes no row; the call returns success false when the statement is one
\* of the handler itself, and success true when the statement is one of
\* updateUserRating or checkAndUpdateDriverVerification.
C31_HandlerFailureFailsTheCall ==
  [][ \A p \in Procs :
        ( calls[p].fault = "none" /\ calls'[p].fault # "none" )
        => /\ calls'[p].pc = "done"
           /\ tables' = tables
           /\ last'.op = calls[p].op /\ last'.success = calls'[p].success
           /\ calls'[p].success <=>
                \/ /\ calls[p].op = "rateRide"
                   /\ calls'[p].fault \in {"selectReceived", "updateProfile"}
                \/ /\ calls[p].op = "processDocumentVerification"
                   /\ calls'[p].fault \in {"selectDocuments", "updateDriver"} ]_vars

\* C31 witness: the insert of a makeOffer call failed and the call returned success
\* false; the profile update of a rateRide call failed after its rating was inserted
\* and the call returned success.
C31_Witness ==
  /\ \E p \in Procs : /\ calls[p].op = "makeOffer" /\ calls[p].pc = "done"
                      /\ calls[p].fault = "insertOffer" /\ ~calls[p].success
  /\ \E p \in Procs : /\ calls[p].op = "rateRide" /\ calls[p].pc = "done"
                      /\ calls[p].fault = "updateProfile" /\ calls[p].success
  /\ Rows(ratings) = 1
  /\ drivers[1].totalRides + passengers[1].totalRides = 0

====
